---- MODULE Spec2Model ----
(***************************************************************************)
(* Rule evaluation engine of mcp-rules-engine (src/app/rules_engine_mcp.py) *)
(* as a state machine: the global RuleEngineConfig, the persisted JSON      *)
(* document, the MCP tool handlers that mutate them, and process_text.      *)
(*                                                                         *)
(* Representation.  A text is a sequence of tokens.  A condition is a       *)
(* regular expression written in a small sub-language of Python's re: a     *)
(* sequence of literal tokens, "(" and ")" for capturing groups, and "["    *)
(* (an unclosed character class, which does not compile).  uuid4 ids are    *)
(* natural numbers issued in increasing order; the rule set id "default"    *)
(* is DefaultSetId.  Timestamps are readings of a clock `now`.              *)
(***************************************************************************)
EXTENDS Integers, Sequences, FiniteSets, TLC

VARIABLES
    config,      \* the global RuleEngineConfig: [rules, rule_sets, default_rule_set]
    disk,        \* the backing document rules_config.json
    now,         \* the wall clock read by datetime.now()
    uuids,       \* [rule, set]: how many uuid4 ids have been drawn for rules / rule sets
    ret,         \* the last tool call and what it returned
    stdin,       \* simple_mcp_stdio: the lines of sys.stdin not read yet
    reader_thread,  \* simple_mcp_stdio: whether read_stdin_thread is running
    stdin_queue, \* simple_mcp_stdio: the lines put and not yet got
    buffer,      \* simple_mcp_stdio: the lines run_stdio_server has accumulated
    stdout       \* simple_mcp_stdio: the response lines written to sys.stdout

vars == <<config, disk, now, uuids, ret, stdin, reader_thread, stdin_queue, buffer, stdout>>

\* the state of the stdio server (src/simple_mcp_stdio.py), which the engine
\* and the RuleManager never touch
stdio_vars == <<stdin, reader_thread, stdin_queue, buffer, stdout>>

\* no stdio server runs
NoStdio ==
    /\ stdin = <<>>
    /\ reader_thread = FALSE
    /\ stdin_queue = <<>>
    /\ buffer = <<>>
    /\ stdout = <<>>

----------------------------------------------------------------------------
(* Bounds of the exploration *)

MaxRules    == 1     \* rules added by add_rule beyond the seed rules
MaxRuleSets == 1     \* rule sets added by add_rule_set beyond "default"
MaxTime     == 1     \* clock readings after the bootstrap
MaxTextLen  == 2     \* length of a text passed to process_text
MaxPTRules  == 2     \* rules of the configurations process_text is explored on

(* Program constants *)

NumSeedRules == 9    \* len(default_rules) in add_default_rules
DefaultSetId == 0    \* the rule set id "default"; uuid rule set ids are 1, 2, ...

\* ids no uuid4 call ever returns within the bounds ("nonexistent")
GhostId == NumSeedRules + MaxRules + 1
NoSetId == MaxRuleSets + 1

\* Optional values: Python's None (an argument not passed, no such rule) is the
\* empty tuple and a present value x is <<x>>
None    == <<>>
Some(x) == <<x>>

Absent == "<absent>"   \* a key the parameters dict does not hold

----------------------------------------------------------------------------
(* Generic helpers *)

Min(a, b) == IF a <= b THEN a ELSE b

Range(s) == {s[i] : i \in 1..Len(s)}

SeqsUpTo(S, n) == UNION {[1..k -> S] : k \in 0..n}

\* dict without a key (del d[k])
DictDel(d, k) == [x \in (DOMAIN d) \ {k} |-> d[x]]

\* dict with d[k] = v
DictPut(d, k, v) == [x \in (DOMAIN d) \cup {k} |-> IF x = k THEN v ELSE d[x]]

\* list.remove(x): removes the FIRST occurrence of x only
RECURSIVE ListRemove(_, _)
ListRemove(s, x) ==
    IF s = <<>> THEN <<>>
    ELSE IF Head(s) = x THEN Tail(s)
    ELSE <<Head(s)>> \o ListRemove(Tail(s), x)

----------------------------------------------------------------------------
(* PatternCompiler: re.compile on the condition sub-language *)

\* nesting depth after reading c[1..i], or -1 once a ")" closed nothing
RECURSIVE Depth(_, _)
Depth(c, i) ==
    IF i = 0 THEN 0
    ELSE LET d == Depth(c, i - 1)
         IN IF d < 0 THEN -1
            ELSE IF c[i] = "(" THEN d + 1
            ELSE IF c[i] = ")" THEN d - 1
            ELSE d

\* re.compile(condition) does not raise re.error
Compiles(c) == "[" \notin Range(c) /\ Depth(c, Len(c)) = 0

----------------------------------------------------------------------------
(* Data model *)

NoParams == [reason |-> Absent, severity |-> Absent, flag_reason |-> Absent,
             transform_type |-> Absent, format |-> Absent]

\* Rule(...): created_at and updated_at default to datetime.now()
Rule(id, name, description, condition, action, replacement, parameters, enabled, priority, t) ==
    [id |-> id, name |-> name, description |-> description,
     condition |-> condition, action |-> action, replacement |-> replacement,
     parameters |-> parameters, enabled |-> enabled, priority |-> priority,
     created_at |-> t, updated_at |-> t]

\* RuleSet(...)
RuleSet(id, name, description, rule_ids, enabled, t) ==
    [id |-> id, name |-> name, description |-> description, rules |-> rule_ids,
     enabled |-> enabled, created_at |-> t, updated_at |-> t]

\* RuleEngineConfig(): the module-level `config = RuleEngineConfig()`
RuleEngineConfig ==
    [rules |-> <<>>, rule_sets |-> <<>>, default_rule_set |-> DefaultSetId]

\* The nine seed rules of add_default_rules, in list order.  Each seed
\* pattern matches its own kind of token: "s" an SSN, "c" a card number,
\* "e" an e-mail address, "p" a phone number, "k" "v" a credential key and
\* its "=value", "i" an IPv4 address, "u" a URL, "f" a profanity, "m" "y"
\* the "MM/DD/" and "YYYY" parts of a date.  Credentials, Profanity Block
\* and Date Transform have capturing groups, as in the source.
default_rules ==
    << [name |-> "SSN", condition |-> <<"s">>, action |-> "redact",
        replacement |-> <<"<SSN>">>, parameters |-> NoParams, priority |-> 100],
       [name |-> "Credit Card", condition |-> <<"c">>, action |-> "redact",
        replacement |-> <<"<CREDIT_CARD>">>, parameters |-> NoParams, priority |-> 90],
       [name |-> "Email", condition |-> <<"e">>, action |-> "redact",
        replacement |-> <<"<EMAIL>">>, parameters |-> NoParams, priority |-> 80],
       [name |-> "Phone", condition |-> <<"p">>, action |-> "redact",
        replacement |-> <<"<PHONE>">>, parameters |-> NoParams, priority |-> 70],
       [name |-> "Credentials", condition |-> <<"(", "k", ")", "v">>, action |-> "redact",
        replacement |-> <<"<CREDENTIAL>">>, parameters |-> NoParams, priority |-> 60],
       [name |-> "IP Address", condition |-> <<"i">>, action |-> "redact",
        replacement |-> <<"<IP_ADDRESS>">>, parameters |-> NoParams, priority |-> 50],
       [name |-> "URL", condition |-> <<"u">>, action |-> "flag",
        replacement |-> <<"<URL>">>,
        parameters |-> [NoParams EXCEPT !.flag_reason = "Contains URL", !.severity = "info"],
        priority |-> 40],
       [name |-> "Profanity Block", condition |-> <<"(", "f", ")">>, action |-> "block",
        replacement |-> <<"<REDACTED>">>,
        parameters |-> [NoParams EXCEPT !.reason = "Contains strong profanity",
                                        !.severity = "high"],
        priority |-> 200],
       [name |-> "Date Transform", condition |-> <<"(", "m", ")", "(", "y", ")">>,
        action |-> "transform", replacement |-> <<"<REDACTED>">>,
        parameters |-> [NoParams EXCEPT !.transform_type = "date", !.format = "%Y-%m-%d"],
        priority |-> 30] >>

----------------------------------------------------------------------------
(* Persistence: save_config / load_config *)

Missing == [kind |-> "missing"]     \* no file
Corrupt == [kind |-> "corrupt"]     \* a file json.load or the models reject

\* what can happen to the write: it succeeds, or it fails after
\* open(..., 'w') truncated the file
IOOutcomes == {"ok", "write_fails"}

\* rule.model_dump(): the rule as a JSON object
DumpRule(r) ==
    [id |-> r.id, name |-> r.name, description |-> r.description,
     condition |-> r.condition, action |-> r.action, replacement |-> r.replacement,
     parameters |-> r.parameters, enabled |-> r.enabled, priority |-> r.priority,
     created_at |-> r.created_at, updated_at |-> r.updated_at]

\* rule_set.model_dump()
DumpRuleSet(s) ==
    [id |-> s.id, name |-> s.name, description |-> s.description, rules |-> s.rules,
     enabled |-> s.enabled, created_at |-> s.created_at, updated_at |-> s.updated_at]

\* Rule(**rule): the model rebuilt from the JSON object (no re.compile here)
LoadRule(d) ==
    [id |-> d.id, name |-> d.name, description |-> d.description,
     condition |-> d.condition, action |-> d.action, replacement |-> d.replacement,
     parameters |-> d.parameters, enabled |-> d.enabled, priority |-> d.priority,
     created_at |-> d.created_at, updated_at |-> d.updated_at]

\* RuleSet(**rule_set)
LoadRuleSet(d) ==
    [id |-> d.id, name |-> d.name, description |-> d.description, rules |-> d.rules,
     enabled |-> d.enabled, created_at |-> d.created_at, updated_at |-> d.updated_at]

\* the document json.dump writes for cfg
Document(cfg) ==
    [kind |-> "json",
     rules |-> [id \in DOMAIN cfg.rules |-> DumpRule(cfg.rules[id])],
     rule_sets |-> [id \in DOMAIN cfg.rule_sets |-> DumpRuleSet(cfg.rule_sets[id])],
     default_rule_set |-> cfg.default_rule_set]

\* save_config: the file after the call; an exception is logged and swallowed
save_config(cfg, file, io) ==
    IF io = "ok" THEN Document(cfg) ELSE Corrupt

\* add_default_rules: the seed rules get fresh uuids 1..9, the rule set
\* "default" lists them in order and becomes the default
add_default_rules(cfg, t) ==
    LET seed(i) == Rule(i, default_rules[i].name, "", default_rules[i].condition,
                        default_rules[i].action, default_rules[i].replacement,
                        default_rules[i].parameters, TRUE, default_rules[i].priority, t)
        set == RuleSet(DefaultSetId, "Default", "", [i \in 1..NumSeedRules |-> i], TRUE, t)
    IN [rules |-> [id \in (DOMAIN cfg.rules) \cup (1..NumSeedRules) |->
                      IF id \in 1..NumSeedRules THEN seed(id) ELSE cfg.rules[id]],
        rule_sets |-> DictPut(cfg.rule_sets, DefaultSetId, set),
        default_rule_set |-> DefaultSetId]

\* mutant: the default rule set is not read back from the document
LoadDocument_DefaultIgnored(file) ==
    [rules |-> [id \in DOMAIN file.rules |-> LoadRule(file.rules[id])],
     rule_sets |-> [id \in DOMAIN file.rule_sets |-> LoadRuleSet(file.rule_sets[id])],
     default_rule_set |-> DefaultSetId]

\* the RuleEngineConfig load_config builds from the parsed document
LoadDocument(file) ==
    [rules |-> [id \in DOMAIN file.rules |-> LoadRule(file.rules[id])],
     rule_sets |-> [id \in DOMAIN file.rule_sets |-> LoadRuleSet(file.rule_sets[id])],
     default_rule_set |-> file.default_rule_set]

\* load_config in a fresh process (config starts as RuleEngineConfig()):
\* [config, disk] after RulesEngine.__init__
load_config(file, t, io) ==
    IF file.kind = "json" THEN [config |-> LoadDocument(file), disk |-> file]
    ELSE IF file.kind = "corrupt" THEN
        [config |-> add_default_rules(RuleEngineConfig, t), disk |-> file]
    ELSE
        LET cfg == add_default_rules(RuleEngineConfig, t)
        IN [config |-> cfg, disk |-> save_config(cfg, file, io)]

----------------------------------------------------------------------------
(* RulesEngine: the CRUD methods.  Each takes the world w = [config, disk] *)
(* and returns [w, ret]: the world after the call and the value returned.  *)

World(cfg, file) == [config |-> cfg, disk |-> file]

Saved(cfg, file, io) == World(cfg, save_config(cfg, file, io))

\* RulesEngine.get_rule_by_id
get_rule_by_id(cfg, rule_id) ==
    IF rule_id \in DOMAIN cfg.rules THEN Some(cfg.rules[rule_id]) ELSE None

\* mutant: the new rule goes to the rule set with id "default", whichever
\* rule set is the default
RulesEngine_add_rule_ToDefaultId(w, rule, t, io) ==
    LET cfg == w.config
        r   == [rule EXCEPT !.updated_at = t]
        d   == DefaultSetId
        sets == IF d \in DOMAIN cfg.rule_sets
                THEN [cfg.rule_sets EXCEPT ![d].rules = Append(@, r.id),
                                           ![d].updated_at = t]
                ELSE cfg.rule_sets
        cfg2 == [cfg EXCEPT !.rules = DictPut(cfg.rules, r.id, r), !.rule_sets = sets]
    IN [w |-> Saved(cfg2, w.disk, io), ret |-> r.id]

\* RulesEngine.add_rule
RulesEngine_add_rule(w, rule, t, io) ==
    LET cfg == w.config
        r   == [rule EXCEPT !.updated_at = t]
        d   == cfg.default_rule_set
        sets == IF d \in DOMAIN cfg.rule_sets
                THEN [cfg.rule_sets EXCEPT ![d].rules = Append(@, r.id),
                                           ![d].updated_at = t]
                ELSE cfg.rule_sets
        cfg2 == [cfg EXCEPT !.rules = DictPut(cfg.rules, r.id, r), !.rule_sets = sets]
    IN [w |-> Saved(cfg2, w.disk, io), ret |-> r.id]

\* RulesEngine.update_rule
RulesEngine_update_rule(w, rule_id, rule, t, io) ==
    IF rule_id \notin DOMAIN w.config.rules THEN [w |-> w, ret |-> FALSE]
    ELSE LET r == [rule EXCEPT !.id = rule_id, !.updated_at = t]
             cfg2 == [w.config EXCEPT !.rules[rule_id] = r]
         IN [w |-> Saved(cfg2, w.disk, io), ret |-> TRUE]

\* mutant: the rule is not looked up first, the call saves and reports success
RulesEngine_delete_rule_Unchecked(w, rule_id, t, io) ==
    LET cfg == w.config
        sets == [s \in DOMAIN cfg.rule_sets |->
                   IF rule_id \in Range(cfg.rule_sets[s].rules)
                   THEN [cfg.rule_sets[s] EXCEPT
                            !.rules = ListRemove(@, rule_id), !.updated_at = t]
                   ELSE cfg.rule_sets[s]]
        cfg2 == [cfg EXCEPT !.rules = DictDel(cfg.rules, rule_id), !.rule_sets = sets]
    IN [w |-> Saved(cfg2, w.disk, io), ret |-> TRUE]

\* RulesEngine.delete_rule
RulesEngine_delete_rule(w, rule_id, t, io) ==
    IF rule_id \notin DOMAIN w.config.rules THEN [w |-> w, ret |-> FALSE]
    ELSE LET cfg == w.config
             sets == [s \in DOMAIN cfg.rule_sets |->
                        IF rule_id \in Range(cfg.rule_sets[s].rules)
                        THEN [cfg.rule_sets[s] EXCEPT
                                 !.rules = ListRemove(@, rule_id), !.updated_at = t]
                        ELSE cfg.rule_sets[s]]
             cfg2 == [cfg EXCEPT !.rules = DictDel(cfg.rules, rule_id),
                                 !.rule_sets = sets]
         IN [w |-> Saved(cfg2, w.disk, io), ret |-> TRUE]

\* RulesEngine.add_rule_set
RulesEngine_add_rule_set(w, rule_set, t, io) ==
    LET s == [rule_set EXCEPT !.updated_at = t]
        cfg2 == [w.config EXCEPT !.rule_sets = DictPut(w.config.rule_sets, s.id, s)]
    IN [w |-> Saved(cfg2, w.disk, io), ret |-> s.id]

\* mutant: the updated rule set is stored under a key of its own, the old
\* entry removed
RulesEngine_update_rule_set_Rekeyed(w, rule_set_id, rule_set, t, io) ==
    IF rule_set_id \notin DOMAIN w.config.rule_sets THEN [w |-> w, ret |-> FALSE]
    ELSE LET s == [rule_set EXCEPT !.id = rule_set_id, !.updated_at = t]
             cfg2 == [w.config EXCEPT
                        !.rule_sets = DictPut(DictDel(@, rule_set_id), NoSetId, s)]
         IN [w |-> Saved(cfg2, w.disk, io), ret |-> TRUE]

\* RulesEngine.update_rule_set
RulesEngine_update_rule_set(w, rule_set_id, rule_set, t, io) ==
    IF rule_set_id \notin DOMAIN w.config.rule_sets THEN [w |-> w, ret |-> FALSE]
    ELSE LET s == [rule_set EXCEPT !.id = rule_set_id, !.updated_at = t]
             cfg2 == [w.config EXCEPT !.rule_sets[rule_set_id] = s]
         IN [w |-> Saved(cfg2, w.disk, io), ret |-> TRUE]

\* mutant: the rules the rule set lists are deleted with it
RulesEngine_delete_rule_set_Cascading(w, rule_set_id, io) ==
    IF rule_set_id \notin DOMAIN w.config.rule_sets THEN [w |-> w, ret |-> FALSE]
    ELSE IF rule_set_id = w.config.default_rule_set THEN [w |-> w, ret |-> FALSE]
    ELSE LET listed == Range(w.config.rule_sets[rule_set_id].rules)
             cfg2 == [w.config EXCEPT
                        !.rule_sets = DictDel(@, rule_set_id),
                        !.rules = [id \in (DOMAIN @) \ listed |-> @[id]]]
         IN [w |-> Saved(cfg2, w.disk, io), ret |-> TRUE]

\* mutant: the rule set with the id "default" is the protected one
RulesEngine_delete_rule_set_ProtectsDefaultId(w, rule_set_id, io) ==
    IF rule_set_id \notin DOMAIN w.config.rule_sets THEN [w |-> w, ret |-> FALSE]
    ELSE IF rule_set_id = DefaultSetId THEN [w |-> w, ret |-> FALSE]
    ELSE LET cfg2 == [w.config EXCEPT !.rule_sets = DictDel(w.config.rule_sets, rule_set_id)]
         IN [w |-> Saved(cfg2, w.disk, io), ret |-> TRUE]

\* mutant: the default rule set is not protected
RulesEngine_delete_rule_set_Unguarded(w, rule_set_id, io) ==
    IF rule_set_id \notin DOMAIN w.config.rule_sets THEN [w |-> w, ret |-> FALSE]
    ELSE LET cfg2 == [w.config EXCEPT !.rule_sets = DictDel(w.config.rule_sets, rule_set_id)]
         IN [w |-> Saved(cfg2, w.disk, io), ret |-> TRUE]

\* RulesEngine.delete_rule_set
RulesEngine_delete_rule_set(w, rule_set_id, io) ==
    IF rule_set_id \notin DOMAIN w.config.rule_sets THEN [w |-> w, ret |-> FALSE]
    ELSE IF rule_set_id = w.config.default_rule_set THEN [w |-> w, ret |-> FALSE]
    ELSE LET cfg2 == [w.config EXCEPT !.rule_sets = DictDel(w.config.rule_sets, rule_set_id)]
         IN [w |-> Saved(cfg2, w.disk, io), ret |-> TRUE]

\* mutant: any id becomes the default, known or not
RulesEngine_set_default_rule_set_Unchecked(w, rule_set_id, io) ==
    LET cfg2 == [w.config EXCEPT !.default_rule_set = rule_set_id]
    IN [w |-> Saved(cfg2, w.disk, io), ret |-> TRUE]

\* mutant: the call to save_config is left out
RulesEngine_set_default_rule_set_Unsaved(w, rule_set_id, io) ==
    IF rule_set_id \notin DOMAIN w.config.rule_sets THEN [w |-> w, ret |-> FALSE]
    ELSE [w |-> [w EXCEPT !.config.default_rule_set = rule_set_id], ret |-> TRUE]

\* RulesEngine.set_default_rule_set
RulesEngine_set_default_rule_set(w, rule_set_id, io) ==
    IF rule_set_id \notin DOMAIN w.config.rule_sets THEN [w |-> w, ret |-> FALSE]
    ELSE LET cfg2 == [w.config EXCEPT !.default_rule_set = rule_set_id]
         IN [w |-> Saved(cfg2, w.disk, io), ret |-> TRUE]

----------------------------------------------------------------------------
(* Matching: re.search, Pattern.findall and Pattern.sub on the sub-language *)

IsParen(x) == x \in {"(", ")"}

\* the tokens a compiled condition matches, in order
Literal(c) == SelectSeq(c, LAMBDA x : ~IsParen(x))

\* pattern.groups > 0
HasGroups(c) == "(" \in Range(c)

FirstOpen(c) == CHOOSE i \in 1..Len(c) : c[i] = "(" /\ \A j \in 1..(i - 1) : c[j] # "("

\* the ")" that closes the "(" at position i
CloseOf(c, i) ==
    CHOOSE j \in (i + 1)..Len(c) :
        /\ c[j] = ")"
        /\ Depth(c, j) = Depth(c, i) - 1
        /\ \A k \in (i + 1)..(j - 1) : Depth(c, k) >= Depth(c, i)

\* match.group(1): the text the first capturing group matched
Group1(c) ==
    LET i == FirstOpen(c)
    IN Literal(SubSeq(c, i + 1, CloseOf(c, i) - 1))

\* the pattern matches text at position i
MatchAt(c, text, i) ==
    LET lit == Literal(c)
    IN /\ i + Len(lit) - 1 <= Len(text)
       /\ SubSeq(text, i, i + Len(lit) - 1) = lit

\* re.search(condition, text) is not None (the condition compiles)
Search(c, text) == \E i \in 1..(Len(text) + 1) : MatchAt(c, text, i)

\* start positions of the leftmost non-overlapping matches from position i on
RECURSIVE MatchStarts(_, _, _)
MatchStarts(c, text, i) ==
    IF i > Len(text) + 1 THEN <<>>
    ELSE IF MatchAt(c, text, i)
         THEN <<i>> \o MatchStarts(c, text,
                           IF Literal(c) = <<>> THEN i + 1 ELSE i + Len(Literal(c)))
         ELSE MatchStarts(c, text, i + 1)

\* mutant: only the first match is reported
FindAll_FirstOnly(c, text) ==
    IF ~Search(c, text) THEN <<>>
    ELSE << IF HasGroups(c) THEN Group1(c) ELSE Literal(c) >>

\* pattern.findall(text): per match the first group's text if the pattern
\* has groups (a str for one group, element [0] of the tuple for more),
\* else the whole match
FindAll(c, text) ==
    LET starts == MatchStarts(c, text, 1)
    IN [k \in 1..Len(starts) |-> IF HasGroups(c) THEN Group1(c) ELSE Literal(c)]

\* the replacement template is valid for the pattern: the token "\\1"
\* refers to group 1, which must exist
TemplateOk(c, repl) == "\\1" \in Range(repl) => HasGroups(c)

\* the template expanded for one match
RECURSIVE Expand(_, _)
Expand(c, repl) ==
    IF repl = <<>> THEN <<>>
    ELSE (IF Head(repl) = "\\1" THEN Group1(c) ELSE <<Head(repl)>>)
         \o Expand(c, Tail(repl))

\* text from position i on with each match replaced by new
RECURSIVE SubFrom(_, _, _, _)
SubFrom(c, new, text, i) ==
    IF i > Len(text) + 1 THEN <<>>
    ELSE LET here == IF i <= Len(text) THEN <<text[i]>> ELSE <<>>
         IN IF MatchAt(c, text, i)
            THEN IF Literal(c) = <<>>
                 THEN new \o here \o SubFrom(c, new, text, i + 1)
                 ELSE new \o SubFrom(c, new, text, i + Len(Literal(c)))
            ELSE here \o SubFrom(c, new, text, i + 1)

\* pattern.sub(replacement, text)
Sub(c, repl, text) == SubFrom(c, Expand(c, repl), text, 1)

\* datetime.strptime(s, "%m/%d/%Y") succeeds: s is a whole date
Strptime(s) == s = <<"m", "y">>

\* date.strftime(date_format): one token, the date written in that format
Strftime(date_format) == <<date_format>>

----------------------------------------------------------------------------
(* RulesEngine.get_rules_by_set and RulesEngine.process_text *)

\* dict.get(key, default) on rule.parameters
ParamGet(v, default) == IF v = Absent THEN default ELSE v

\* mutant: an unknown rule set id falls back to the default rule set
get_rules_by_set_FallbackDefault(cfg, rule_set_id) ==
    LET given == IF rule_set_id = None THEN cfg.default_rule_set ELSE rule_set_id[1]
        sid == IF given \in DOMAIN cfg.rule_sets THEN given ELSE cfg.default_rule_set
    IN IF sid \notin DOMAIN cfg.rule_sets THEN <<>>
       ELSE LET ids == SelectSeq(cfg.rule_sets[sid].rules,
                                 LAMBDA id : id \in DOMAIN cfg.rules)
            IN [k \in 1..Len(ids) |-> cfg.rules[ids[k]]]

\* mutant: a rule listed twice is returned once
get_rules_by_set_Deduplicated(cfg, rule_set_id) ==
    LET sid == IF rule_set_id = None THEN cfg.default_rule_set ELSE rule_set_id[1]
    IN IF sid \notin DOMAIN cfg.rule_sets THEN <<>>
       ELSE LET l == cfg.rule_sets[sid].rules
                first == {i \in 1..Len(l) : \A j \in 1..(i - 1) : l[j] # l[i]}
                ids == SelectSeq([i \in 1..Len(l) |-> IF i \in first THEN l[i] ELSE GhostId],
                                 LAMBDA id : id \in DOMAIN cfg.rules)
            IN [k \in 1..Len(ids) |-> cfg.rules[ids[k]]]

\* mutant: no id reads the rule set with the id "default"
get_rules_by_set_LiteralDefault(cfg, rule_set_id) ==
    LET sid == IF rule_set_id = None THEN DefaultSetId ELSE rule_set_id[1]
    IN IF sid \notin DOMAIN cfg.rule_sets THEN <<>>
       ELSE LET ids == SelectSeq(cfg.rule_sets[sid].rules,
                                 LAMBDA id : id \in DOMAIN cfg.rules)
            IN [k \in 1..Len(ids) |-> cfg.rules[ids[k]]]

\* mutant: a rule set that is switched off yields no rules
get_rules_by_set_EnabledOnly(cfg, rule_set_id) ==
    LET sid == IF rule_set_id = None THEN cfg.default_rule_set ELSE rule_set_id[1]
    IN IF sid \notin DOMAIN cfg.rule_sets \/ ~cfg.rule_sets[sid].enabled THEN <<>>
       ELSE LET ids == SelectSeq(cfg.rule_sets[sid].rules,
                                 LAMBDA id : id \in DOMAIN cfg.rules)
            IN [k \in 1..Len(ids) |-> cfg.rules[ids[k]]]

\* get_rules_by_set(rule_set_id); None reads the default rule set
get_rules_by_set(cfg, rule_set_id) ==
    LET sid == IF rule_set_id = None THEN cfg.default_rule_set ELSE rule_set_id[1]
    IN IF sid \notin DOMAIN cfg.rule_sets THEN <<>>
       ELSE LET ids == SelectSeq(cfg.rule_sets[sid].rules,
                                 LAMBDA id : id \in DOMAIN cfg.rules)
            IN [k \in 1..Len(ids) |-> cfg.rules[ids[k]]]

\* mutant: a rule an earlier rule set has contributed is not added again
RECURSIVE ExtendAll_Distinct(_, _)
ExtendAll_Distinct(cfg, ids) ==
    IF ids = <<>> THEN <<>>
    ELSE LET first == get_rules_by_set(cfg, Some(Head(ids)))
             rest  == ExtendAll_Distinct(cfg, Tail(ids))
         IN first \o SelectSeq(rest, LAMBDA r : \A k \in 1..Len(first) : first[k].id # r.id)

\* rules_to_apply.extend(...) over the given rule set ids, in order
RECURSIVE ExtendAll(_, _)
ExtendAll(cfg, ids) ==
    IF ids = <<>> THEN <<>>
    ELSE get_rules_by_set(cfg, Some(Head(ids))) \o ExtendAll(cfg, Tail(ids))

\* mutant: r is put before the rules of its own priority
RECURSIVE InsertByPriority_TiesFirst(_, _)
InsertByPriority_TiesFirst(sorted, r) ==
    IF sorted = <<>> THEN <<r>>
    ELSE IF Head(sorted).priority > r.priority
         THEN <<Head(sorted)>> \o InsertByPriority_TiesFirst(Tail(sorted), r)
         ELSE <<r>> \o sorted

\* r put behind every rule of sorted whose priority is >= its own
RECURSIVE InsertByPriority(_, _)
InsertByPriority(sorted, r) ==
    IF sorted = <<>> THEN <<r>>
    ELSE IF Head(sorted).priority >= r.priority
         THEN <<Head(sorted)>> \o InsertByPriority(Tail(sorted), r)
         ELSE <<r>> \o sorted

\* mutant: the sort is left out, the rules run in membership order
SortByPriority_Unsorted(rs, n) == rs

\* list.sort(key=priority, reverse=True): stable, descending
RECURSIVE SortByPriority(_, _)
SortByPriority(rs, n) ==
    IF n = 0 THEN <<>> ELSE InsertByPriority(SortByPriority(rs, n - 1), rs[n])

\* mutant: a rule added after the bootstrap is matched with the pattern
\* compiled when add_rule stored it, whatever its condition is now
RulesToApply_CachedMatcher(cfg, rule_set_ids) ==
    LET cand == IF rule_set_ids # None /\ rule_set_ids[1] # <<>>
                THEN ExtendAll(cfg, rule_set_ids[1])
                ELSE get_rules_by_set(cfg, None)
        en == SelectSeq(cand, LAMBDA r : r.enabled)
        rs == SortByPriority(en, Len(en))
    IN [k \in 1..Len(rs) |->
          IF rs[k].id > NumSeedRules
          THEN [rs[k] EXCEPT !.condition = <<"(", "f", ")">>] ELSE rs[k]]

\* mutant: an empty list of rule set ids names no rule set, so no rule
RulesToApply_EmptyListNoRules(cfg, rule_set_ids) ==
    LET cand == IF rule_set_ids # None
                THEN ExtendAll(cfg, rule_set_ids[1])
                ELSE get_rules_by_set(cfg, None)
        en == SelectSeq(cand, LAMBDA r : r.enabled)
    IN SortByPriority(en, Len(en))

\* mutant: disabled rules are not filtered out
RulesToApply_NoFilter(cfg, rule_set_ids) ==
    LET cand == IF rule_set_ids # None /\ rule_set_ids[1] # <<>>
                THEN ExtendAll(cfg, rule_set_ids[1])
                ELSE get_rules_by_set(cfg, None)
    IN SortByPriority(cand, Len(cand))

\* the rules the loop runs over: enabled ones, by descending priority
RulesToApply(cfg, rule_set_ids) ==
    LET cand == IF rule_set_ids # None /\ rule_set_ids[1] # <<>>
                THEN ExtendAll(cfg, rule_set_ids[1])
                ELSE get_rules_by_set(cfg, None)
        en == SelectSeq(cand, LAMBDA r : r.enabled)
    IN SortByPriority(en, Len(en))

ErrorResult(rule, msg) ==
    [rule_id |-> rule.id, rule_name |-> rule.name, action |-> "error", error |-> msg]

\* one `results.append` per element of matches; entries[k] is the entry
\* built for matches[k]
Appended(results, entries) == results \o entries

\* the elements of matches, one by one, as the for loop takes them
Each(matches) == 1..Len(matches)

\* the body of the for loop for one rule; acc = [text, results, status, steps]
\* where steps records, per rule evaluated, its id, the text it was given
\* and the number of results recorded before it
ApplyRule(rule, acc) ==
    LET c    == rule.condition
        text == acc.text
        a    == [acc EXCEPT !.steps = Append(@, [rule_id |-> rule.id, seen |-> text,
                                                 at |-> Len(acc.results)])]
    IN
    IF rule.action = "block" THEN
        IF ~Compiles(c) THEN
            [a EXCEPT !.results = Append(@, ErrorResult(rule, "re.error"))]
        ELSE IF Search(c, text) THEN
            [a EXCEPT !.text = <<>>, !.status = "blocked",
                      !.results = << [rule_id |-> rule.id, rule_name |-> rule.name,
                                      action |-> "block",
                                      reason |-> ParamGet(rule.parameters.reason,
                                                          "Blocked by rule"),
                                      severity |-> ParamGet(rule.parameters.severity,
                                                            "high")] >>]
        ELSE a
    ELSE IF rule.action = "redact" THEN
        IF ~Compiles(c) THEN
            [a EXCEPT !.results = Append(@, ErrorResult(rule, "re.error"))]
        ELSE
            LET entry(m) == [rule_id |-> rule.id, rule_name |-> rule.name,
                             action |-> "redact", original |-> m,
                             replacement |-> rule.replacement]
                found == Appended(a.results, [k \in Each(FindAll(c, text)) |-> entry(FindAll(c, text)[k])])
            IN IF ~TemplateOk(c, rule.replacement)
               THEN [a EXCEPT !.results =
                        Append(found, ErrorResult(rule, "invalid group reference"))]
               ELSE [a EXCEPT !.results = found,
                              !.text = Sub(c, rule.replacement, text)]
    ELSE IF rule.action = "flag" THEN
        IF ~Compiles(c) THEN
            [a EXCEPT !.results = Append(@, ErrorResult(rule, "re.error"))]
        ELSE
            LET entry(m) == [rule_id |-> rule.id, rule_name |-> rule.name,
                             action |-> "flag", text |-> m,
                             flag_reason |-> ParamGet(rule.parameters.flag_reason,
                                                      "Flagged by rule"),
                             severity |-> ParamGet(rule.parameters.severity, "info")]
            IN [a EXCEPT !.results = Appended(a.results, [k \in Each(FindAll(c, text)) |-> entry(FindAll(c, text)[k])])]
    ELSE IF rule.action = "transform" /\ rule.parameters.transform_type = "date" THEN
        IF ~Compiles(c) THEN
            [a EXCEPT !.results = Append(@, ErrorResult(rule, "re.error"))]
        ELSE
            LET date_format == ParamGet(rule.parameters.format, "%Y-%m-%d")
                entry(m) == [rule_id |-> rule.id, rule_name |-> rule.name,
                             action |-> "transform", original |-> m,
                             transformed |-> Strftime(date_format),
                             transform_type |-> "date"]
                parsed == SelectSeq(FindAll(c, text), Strptime)
                \* date_replacer parses match.group(0), the whole match
                new == IF Strptime(Literal(c)) THEN Strftime(date_format)
                       ELSE Literal(c)
            IN [a EXCEPT !.results = Appended(a.results, [k \in Each(parsed) |-> entry(parsed[k])]),
                         !.text = SubFrom(c, new, text, 1)]
    ELSE a   \* any other action, or transform type: nothing is done

\* mutant: a block does not end the loop
RECURSIVE ApplyRules_NoReturn(_, _, _)
ApplyRules_NoReturn(rs, i, acc) ==
    IF i > Len(rs) THEN acc
    ELSE ApplyRules_NoReturn(rs, i + 1, ApplyRule(rs[i], acc))

\* mutant: a block rule looks at the text process_text was called with
RECURSIVE ApplyRules_BlockOnInput(_, _, _)
ApplyRules_BlockOnInput(rs, i, acc) ==
    IF i > Len(rs) \/ acc.status = "blocked" THEN acc
    ELSE LET input   == IF acc.steps = <<>> THEN acc.text ELSE acc.steps[1].seen
             stepped == ApplyRule(rs[i], acc)
             onInput == ApplyRule(rs[i], [acc EXCEPT !.text = input])
             next    == IF rs[i].action # "block" THEN stepped
                        ELSE [onInput EXCEPT
                                !.steps = stepped.steps,
                                !.text = IF onInput.status = "blocked" THEN <<>>
                                         ELSE acc.text]
         IN ApplyRules_BlockOnInput(rs, i + 1, next)

\* the for loop from rule i on; a block ends it
RECURSIVE ApplyRules(_, _, _)
ApplyRules(rs, i, acc) ==
    IF i > Len(rs) \/ acc.status = "blocked" THEN acc
    ELSE ApplyRules(rs, i + 1, ApplyRule(rs[i], acc))

\* mutant: the empty text is not returned early
process_text_NoEmptyCheck(cfg, text, rule_set_ids) ==
    LET acc == ApplyRules(RulesToApply(cfg, rule_set_ids), 1,
                          [text |-> text, results |-> <<>>,
                           status |-> "success", steps |-> <<>>])
    IN [processed_text |-> acc.text, results |-> acc.results,
        status |-> acc.status, steps |-> acc.steps]

\* RulesEngine.process_text(text, rule_set_ids): the returned dictionary
\* [processed_text, results, status], with the steps taken
process_text(cfg, text, rule_set_ids) ==
    IF text = <<>>
    THEN [processed_text |-> text, results |-> <<>>, status |-> "success",
          steps |-> <<>>]
    ELSE LET acc == ApplyRules(RulesToApply(cfg, rule_set_ids), 1,
                               [text |-> text, results |-> <<>>,
                                status |-> "success", steps |-> <<>>])
         IN [processed_text |-> acc.text, results |-> acc.results,
             status |-> acc.status, steps |-> acc.steps]

----------------------------------------------------------------------------
(* MCP tools: the handlers callers reach.  Same shape as the methods:      *)
(* [w, ret], where ret is the dictionary the tool returns, reduced to      *)
(* [error, id].                                                            *)

Ok(id)     == [error |-> "", id |-> Some(id)]
Error(msg) == [error |-> msg, id |-> None]

\* the optional arguments of update_rule, None where not passed
NoUpdate == [name |-> None, description |-> None, condition |-> None, action |-> None,
             replacement |-> None, parameters |-> None, enabled |-> None,
             priority |-> None]

\* `if value is not None` of the update loops
Pick(new, old) == IF new = None THEN old ELSE new[1]

\* the setattr loop of update_rule, on the stored Rule object
SetRuleFields(r, u) ==
    [r EXCEPT !.name = Pick(u.name, @), !.description = Pick(u.description, @),
              !.condition = Pick(u.condition, @), !.action = Pick(u.action, @),
              !.replacement = Pick(u.replacement, @),
              !.parameters = Pick(u.parameters, @), !.enabled = Pick(u.enabled, @),
              !.priority = Pick(u.priority, @)]

\* the setattr loop of update_rule_set, on the stored RuleSet object
SetRuleSetFields(s, u) ==
    [s EXCEPT !.name = Pick(u.name, @), !.description = Pick(u.description, @),
              !.rules = Pick(u.rule_ids, @), !.enabled = Pick(u.enabled, @)]

\* mutant: the regex is not validated
tool_add_rule_Unvalidated(w, f, id, t, io) ==
    LET rule == Rule(id, f.name, f.description, f.condition, f.action, f.replacement,
                     f.parameters, TRUE, f.priority, t)
        r == RulesEngine_add_rule(w, rule, t, io)
    IN [w |-> r.w, ret |-> Ok(r.ret)]

\* tool add_rule; f holds the arguments, id the uuid4 drawn by Rule(...)
tool_add_rule(w, f, id, t, io) ==
    LET rule == Rule(id, f.name, f.description, f.condition, f.action, f.replacement,
                     f.parameters, TRUE, f.priority, t)
    IN IF ~Compiles(rule.condition) THEN [w |-> w, ret |-> Error("InvalidPattern")]
       ELSE LET r == RulesEngine_add_rule(w, rule, t, io)
            IN [w |-> r.w, ret |-> Ok(r.ret)]

\* tool update_rule.  get_rule_by_id returns the stored object itself, so
\* the setattr loop writes into config.rules before the regex is validated.
tool_update_rule(w, rule_id, u, t, io) ==
    LET existing_rule == get_rule_by_id(w.config, rule_id)
    IN IF existing_rule = None THEN [w |-> w, ret |-> Error("RuleNotFound")]
       ELSE LET set == SetRuleFields(existing_rule[1], u)
                w1  == [w EXCEPT !.config.rules[rule_id] = set]
            IN IF u.condition # None /\ ~Compiles(set.condition)
               THEN [w |-> w1, ret |-> Error("InvalidPattern")]
               ELSE LET r == RulesEngine_update_rule(w1, rule_id, set, t, io)
                    IN [w |-> r.w,
                        ret |-> IF r.ret THEN Ok(rule_id) ELSE Error("Failed")]

\* tool delete_rule
tool_delete_rule(w, rule_id, t, io) ==
    LET r == RulesEngine_delete_rule(w, rule_id, t, io)
    IN [w |-> r.w, ret |-> IF r.ret THEN Ok(rule_id) ELSE Error("Failed")]

\* tool add_rule_set; id is the uuid4 drawn by RuleSet(...)
tool_add_rule_set(w, name, description, rule_ids, id, t, io) ==
    LET r == RulesEngine_add_rule_set(
                 w, RuleSet(id, name, description, rule_ids, TRUE, t), t, io)
    IN [w |-> r.w, ret |-> Ok(r.ret)]

\* tool update_rule_set; u = [name, description, rule_ids, enabled]
tool_update_rule_set(w, rule_set_id, u, t, io) ==
    IF rule_set_id \notin DOMAIN w.config.rule_sets
    THEN [w |-> w, ret |-> Error("RuleSetNotFound")]
    ELSE LET set == SetRuleSetFields(w.config.rule_sets[rule_set_id], u)
             w1  == [w EXCEPT !.config.rule_sets[rule_set_id] = set]
             r   == RulesEngine_update_rule_set(w1, rule_set_id, set, t, io)
         IN [w |-> r.w, ret |-> IF r.ret THEN Ok(rule_set_id) ELSE Error("Failed")]

\* tool delete_rule_set
tool_delete_rule_set(w, rule_set_id, io) ==
    LET r == RulesEngine_delete_rule_set(w, rule_set_id, io)
    IN [w |-> r.w, ret |-> IF r.ret THEN Ok(rule_set_id) ELSE Error("Failed")]

\* tool set_default_rule_set
tool_set_default_rule_set(w, rule_set_id, io) ==
    LET r == RulesEngine_set_default_rule_set(w, rule_set_id, io)
    IN [w |-> r.w, ret |-> IF r.ret THEN Ok(rule_set_id) ELSE Error("Failed")]

\* the elements of a set of ids as a list, ascending: the order in which the
\* rules dictionary, filled in id order, is iterated
RECURSIVE Ascending(_)
Ascending(S) ==
    IF S = {} THEN <<>>
    ELSE LET least == CHOOSE x \in S : \A y \in S : x <= y
         IN <<least>> \o Ascending(S \ {least})

\* the id "temp_redaction": no uuid4 ever equals it
TempRedactionId == NoSetId + 1

\* tool redact_text (legacy).  temp_rule_set is a local RuleSet object; the
\* handler does not put it into config.rule_sets before it asks
\* process_text for the rule set of that id.
tool_redact_text(cfg, text) ==
    LET redaction_rules ==
            Ascending({id \in DOMAIN cfg.rules :
                          cfg.rules[id].action = "redact" /\ cfg.rules[id].enabled})
        temp_rule_set == RuleSet(TempRedactionId, "Temporary Redaction Set", "",
                                 redaction_rules, TRUE, 0)
        result == process_text(cfg, text, Some(<<temp_rule_set.id>>))
        items == SelectSeq(result.results, LAMBDA item : item.action = "redact")
    IN [redacted_text |-> result.processed_text,
        matches |-> [k \in 1..Len(items) |->
                        [original |-> items[k].original,
                         replacement |-> items[k].replacement,
                         rule_name |-> items[k].rule_name]]]

----------------------------------------------------------------------------
(* Inputs of the exploration *)

\* what datetime.now() may return next: the clock never runs backwards and
\* two readings may fall in the same tick
ClockReadings == now..Min(now + 1, MaxTime)

\* the uuid4 the next Rule(...) / RuleSet(...) draws
NextRuleId == NumSeedRules + uuids.rule + 1
NextSetId  == uuids.set + 1

\* the uuid of the first rule add_rule stores
FirstAddedId == NumSeedRules + 1

\* rule ids callers pass: the rules added since the bootstrap, and an id
\* that names nothing
RuleIdInputs == {GhostId} \cup ((NumSeedRules + 1)..(NumSeedRules + uuids.rule))

\* rule set ids callers pass
SetIdInputs == {DefaultSetId, NoSetId} \cup (1..uuids.set)

\* conditions callers pass: one that compiles, one that does not
ConditionInputs == {<<"(", "f", ")">>, <<"[">>}

AddRuleInputs ==
    {[name |-> "Custom", description |-> "", condition |-> c, action |-> a,
      replacement |-> <<"<REDACTED>">>, parameters |-> NoParams, priority |-> 0] :
        c \in ConditionInputs, a \in {"redact"}}

\* update_rule arguments: a new condition alone, a new condition together
\* with another field, another field alone
UpdateRuleInputs ==
    {[NoUpdate EXCEPT !.condition = Some(c)] : c \in ConditionInputs}
    \cup {[NoUpdate EXCEPT !.condition = Some(c), !.enabled = Some(FALSE)] :
             c \in ConditionInputs \ {<<"(", "f", ")">>}}
    \cup {[NoUpdate EXCEPT !.enabled = Some(FALSE)]}

\* update_rule arguments that change one field of a rule in use: it is
\* switched off or on again, matches something else, replaces by something
\* else or by group 1, gets the priority of the seed rule SSN, or flags
FieldUpdateInputs ==
    {[NoUpdate EXCEPT !.enabled = Some(b)] : b \in BOOLEAN}
    \cup {[NoUpdate EXCEPT !.condition = Some(c)] : c \in {<<"s">>, <<"(", "f", ")">>}}
    \cup {[NoUpdate EXCEPT !.replacement = Some(<<"*">>)],
          [NoUpdate EXCEPT !.replacement = Some(<<"\\1">>)],
          [NoUpdate EXCEPT !.priority = Some(100)],
          [NoUpdate EXCEPT !.action = Some("flag")]}

\* membership lists callers pass: duplicates and dangling ids are accepted
MemberLists ==
    {<<>>, <<FirstAddedId>>, <<FirstAddedId, FirstAddedId>>, <<GhostId, FirstAddedId>>}

UpdateRuleSetInputs ==
    {[name |-> None, description |-> None, rule_ids |-> Some(l), enabled |-> None] :
        l \in MemberLists}

\* the rules under test are all date transforms
DatesOnly == \A id \in DOMAIN config.rules : config.rules[id].action = "transform"

\* update_rule_set arguments that switch a rule set off
SetEnabledInputs ==
    {[name |-> None, description |-> None, rule_ids |-> None, enabled |-> Some(FALSE)]}

\* texts: "s" an SSN, "f" a profanity; where nothing but date transforms is
\* under test, "m" "y" a date MM/DD/YYYY, "m" and "y" alone its parts
TextInputs == SeqsUpTo(IF DatesOnly THEN {"m", "y"} ELSE {"s", "f"}, MaxTextLen)

\* the rule_set_ids argument: not passed, the empty list, the default rule
\* set by name, a rule set that does not exist, an added rule set,
\* "default" and an added one in either order
RuleSetIdsInputs ==
    {None, Some(<<>>), Some(<<DefaultSetId>>), Some(<<NoSetId>>)}
    \cup {Some(<<s>>) : s \in 1..uuids.set}
    \cup {Some(<<DefaultSetId, s>>) : s \in 1..uuids.set}
    \cup {Some(<<s, DefaultSetId>>) : s \in 1..uuids.set}

\* rules to run process_text on: what they match and what they do with it
RuleMenu ==
    { [name |-> "SSN", condition |-> <<"s">>, action |-> "redact",
       replacement |-> <<"<SSN>">>, parameters |-> NoParams],
      [name |-> "Profanity Block", condition |-> <<"(", "f", ")">>, action |-> "block",
       replacement |-> <<"<REDACTED>">>,
       parameters |-> [NoParams EXCEPT !.reason = "Contains strong profanity",
                                       !.severity = "high"]],
      [name |-> "Flag", condition |-> <<"f">>, action |-> "flag",
       replacement |-> <<"<REDACTED>">>,
       parameters |-> [NoParams EXCEPT !.flag_reason = "Profanity"]],
      [name |-> "Flag key", condition |-> <<"(", "s", ")", "f">>, action |-> "flag",
       replacement |-> <<"<REDACTED>">>,
       parameters |-> [NoParams EXCEPT !.flag_reason = "Credential",
                                       !.severity = "high"]],
      [name |-> "Mask", condition |-> <<"f">>, action |-> "redact",
       replacement |-> <<"*">>, parameters |-> NoParams],
      [name |-> "Bad regex", condition |-> <<"[">>, action |-> "redact",
       replacement |-> <<"<REDACTED>">>, parameters |-> NoParams],
      [name |-> "Bad template", condition |-> <<"s">>, action |-> "redact",
       replacement |-> <<"\\1">>, parameters |-> NoParams],
      [name |-> "Block all", condition |-> <<>>, action |-> "block",
       replacement |-> <<"<REDACTED>">>, parameters |-> NoParams],
      [name |-> "Unknown action", condition |-> <<"s">>, action |-> "mask",
       replacement |-> <<"<REDACTED>">>, parameters |-> NoParams] }

\* configurations of MaxPTRules rules, all members of the default rule set in
\* id order.  Each is reachable from the bootstrap: delete the seed rules,
\* add_rule the rules (which appends them to the default rule set), then
\* update_rule their enabled flag, priority and (the non-compiling one, which
\* update_rule stores before it validates) condition.
ConfigsOf(menu) ==
    { [rules |-> [i \in 1..MaxPTRules |->
                    Rule(i, pick[i].m.name, "", pick[i].m.condition, pick[i].m.action,
                         pick[i].m.replacement, pick[i].m.parameters, pick[i].enabled,
                         pick[i].priority, 0)],
       rule_sets |-> DictPut(<<>>, DefaultSetId,
                             RuleSet(DefaultSetId, "Default", "",
                                     [i \in 1..MaxPTRules |-> i], TRUE, 0)),
       default_rule_set |-> DefaultSetId] :
        pick \in [1..MaxPTRules -> [m : menu, enabled : BOOLEAN, priority : {10, 20}]] }

PTConfigs == ConfigsOf(RuleMenu)

\* date transforms: the seed rule's pattern, whose groups are the parts of
\* the date; a pattern without groups; a pattern that matches what is not a
\* whole date; and a transform of another type
DateMenu ==
    { [name |-> "Date Transform", condition |-> <<"(", "m", ")", "(", "y", ")">>,
       action |-> "transform", replacement |-> <<"<REDACTED>">>,
       parameters |-> [NoParams EXCEPT !.transform_type = "date", !.format = "%Y-%m-%d"]],
      [name |-> "Date", condition |-> <<"m", "y">>,
       action |-> "transform", replacement |-> <<"<REDACTED>">>,
       parameters |-> [NoParams EXCEPT !.transform_type = "date"]],
      [name |-> "Month", condition |-> <<"m">>,
       action |-> "transform", replacement |-> <<"<REDACTED>">>,
       parameters |-> [NoParams EXCEPT !.transform_type = "date"]],
      [name |-> "Upper", condition |-> <<"m">>,
       action |-> "transform", replacement |-> <<"<REDACTED>">>,
       parameters |-> [NoParams EXCEPT !.transform_type = "upper"]] }

\* the same configurations, of date transforms
DTConfigs == ConfigsOf(DateMenu)

----------------------------------------------------------------------------
(* The state machine *)

W == World(config, disk)

\* what a start leaves in ret: the document it found and, when it wrote
\* one (only a missing document is written), what became of the write
Started(file, io) ==
    [op |-> "init", found |-> file.kind,
     io |-> IF file.kind = "missing" THEN io ELSE "none"]

\* the state after RulesEngine() in a process that finds no usable document
Init ==
    /\ now = 0
    /\ uuids = [rule |-> 0, set |-> 0]
    /\ NoStdio
    /\ \E file \in {Missing, Corrupt}, io \in IOOutcomes :
          LET r == load_config(file, 0, io)
          IN /\ config = r.config
             /\ disk = r.disk
             /\ ret = Started(file, io)

\* no call is in progress: the server waits for the next request
Idle == ret.op = "idle"

\* The handler returns r = [w, ret].  ret records the call: the tool, the id
\* (or, for add_rule, the condition) it was given, the error and id of the
\* returned dictionary, and what became of the write a successful call made.

Returns(r, call) ==
    /\ Idle
    /\ config' = r.w.config
    /\ disk' = r.w.disk
    /\ UNCHANGED stdio_vars
    /\ ret' = [op |-> call.op, arg |-> call.arg, error |-> r.ret.error, id |-> r.ret.id,
               io |-> IF r.ret.error = "" THEN call.io ELSE "none"]


add_rule ==
    \E f \in AddRuleInputs, t \in ClockReadings, io \in IOOutcomes :
        /\ Compiles(f.condition) => uuids.rule < MaxRules
        /\ Returns(tool_add_rule(W, f, NextRuleId, t, io), [op |-> "add_rule", arg |-> Some(f.condition), io |-> io])
        /\ now' = t
        /\ uuids' = IF Compiles(f.condition) THEN [uuids EXCEPT !.rule = @ + 1] ELSE uuids

\* the tool update_rule, called with arguments out of inputs
UpdateRuleWith(inputs) ==
    \E rule_id \in RuleIdInputs, u \in inputs, t \in ClockReadings,
       io \in IOOutcomes :
        /\ Returns(tool_update_rule(W, rule_id, u, t, io),
                   [op |-> "update_rule", arg |-> Some(rule_id), io |-> io])
        /\ now' = IF rule_id \in DOMAIN config.rules
                     /\ (u.condition = None
                         \/ Compiles(tool_update_rule(W, rule_id, u, t, io)
                                        .w.config.rules[rule_id].condition))
                  THEN t ELSE now
        /\ UNCHANGED uuids

update_rule == UpdateRuleWith(UpdateRuleInputs)

update_rule_field == UpdateRuleWith(FieldUpdateInputs)

delete_rule ==
    \E rule_id \in RuleIdInputs, t \in ClockReadings, io \in IOOutcomes :
        /\ Returns(tool_delete_rule(W, rule_id, t, io),
                   [op |-> "delete_rule", arg |-> Some(rule_id), io |-> io])
        /\ now' = IF \E s \in DOMAIN config.rule_sets :
                        rule_id \in DOMAIN config.rules
                        /\ rule_id \in Range(config.rule_sets[s].rules)
                  THEN t ELSE now
        /\ UNCHANGED uuids

add_rule_set ==
    \E l \in MemberLists, t \in ClockReadings, io \in IOOutcomes :
        /\ uuids.set < MaxRuleSets
        /\ Returns(tool_add_rule_set(W, "Set", "", l, NextSetId, t, io),
                   [op |-> "add_rule_set", arg |-> None, io |-> io])
        /\ now' = t
        /\ uuids' = [uuids EXCEPT !.set = @ + 1]

\* the tool update_rule_set, called with arguments out of inputs
UpdateRuleSetWith(inputs) ==
    \E rule_set_id \in SetIdInputs, u \in inputs, t \in ClockReadings,
       io \in IOOutcomes :
        /\ Returns(tool_update_rule_set(W, rule_set_id, u, t, io),
                   [op |-> "update_rule_set", arg |-> Some(rule_set_id), io |-> io])
        /\ now' = IF rule_set_id \in DOMAIN config.rule_sets THEN t ELSE now
        /\ UNCHANGED uuids

update_rule_set == UpdateRuleSetWith(UpdateRuleSetInputs)

update_rule_set_enabled == UpdateRuleSetWith(SetEnabledInputs)

delete_rule_set ==
    \E rule_set_id \in SetIdInputs, io \in IOOutcomes :
        /\ Returns(tool_delete_rule_set(W, rule_set_id, io),
                   [op |-> "delete_rule_set", arg |-> Some(rule_set_id), io |-> io])
        /\ UNCHANGED <<now, uuids>>

set_default_rule_set ==
    \E rule_set_id \in SetIdInputs, io \in IOOutcomes :
        /\ Returns(tool_set_default_rule_set(W, rule_set_id, io),
                   [op |-> "set_default_rule_set", arg |-> Some(rule_set_id), io |-> io])
        /\ UNCHANGED <<now, uuids>>

\* mutant: process_text writes the configuration out when it is done
ProcessText_Saving ==
    \E text \in TextInputs, rule_set_ids \in RuleSetIdsInputs :
        /\ Idle
        /\ UNCHANGED stdio_vars
        /\ ret' = [op |-> "process_text",
                   arg |-> [text |-> text, rule_set_ids |-> rule_set_ids],
                   out |-> process_text(config, text, rule_set_ids)]
        /\ disk' = save_config(config, disk, "ok")
        /\ UNCHANGED <<config, now, uuids>>

\* the tool process_text
ProcessText ==
    \E text \in TextInputs, rule_set_ids \in RuleSetIdsInputs :
        /\ Idle
        /\ UNCHANGED stdio_vars
        /\ ret' = [op |-> "process_text",
                   arg |-> [text |-> text, rule_set_ids |-> rule_set_ids],
                   out |-> process_text(config, text, rule_set_ids)]
        /\ UNCHANGED <<config, disk, now, uuids>>

\* the tool redact_text
RedactText ==
    \E text \in TextInputs :
        /\ Idle
        /\ UNCHANGED stdio_vars
        /\ ret' = [op |-> "redact_text", arg |-> [text |-> text],
                   out |-> tool_redact_text(config, text)]
        /\ UNCHANGED <<config, disk, now, uuids>>

\* RulesEngine.get_rules_by_set, as the tool get_rules calls it (with an id)
\* and as process_text calls it (with an id, or with none for the default)
GetRulesBySet ==
    \E rule_set_id \in {None} \cup {Some(s) : s \in SetIdInputs} :
        /\ Idle
        /\ UNCHANGED stdio_vars
        /\ ret' = [op |-> "get_rules_by_set", arg |-> rule_set_id,
                   out |-> get_rules_by_set(config, rule_set_id)]
        /\ UNCHANGED <<config, disk, now, uuids>>

\* the server is started again: a fresh process runs RulesEngine()
Restart ==
    \E t \in ClockReadings, io \in IOOutcomes :
        LET r == load_config(disk, t, io)
        IN /\ Idle
           /\ config' = r.config
           /\ disk' = r.disk
           /\ now' = IF disk.kind = "json" THEN now ELSE t
           /\ UNCHANGED stdio_vars
           /\ ret' = Started(disk, io)
           /\ UNCHANGED uuids

\* the caller has taken the response; the server waits again
Respond ==
    /\ ~Idle
    /\ UNCHANGED stdio_vars
    /\ ret' = [op |-> "idle"]
    /\ UNCHANGED <<config, disk, now, uuids>>

Next ==
    \/ add_rule
    \/ update_rule
    \/ delete_rule
    \/ add_rule_set
    \/ update_rule_set
    \/ delete_rule_set
    \/ set_default_rule_set
    \/ GetRulesBySet
    \/ Restart
    \/ Respond

Spec == Init /\ [][Next]_vars

\* process_text explored on its own, over the configurations PTConfigs and
\* DTConfigs
InitPT ==
    /\ config \in PTConfigs \cup DTConfigs
    /\ disk = Document(config)
    /\ now = 0
    /\ uuids = [rule |-> 0, set |-> 0]
    /\ NoStdio
    /\ ret = [op |-> "idle"]

NextPT ==
    \/ ProcessText
    \/ Respond

SpecPT == InitPT /\ [][NextPT]_vars

\* The engine in use.  The server was started without a document, a rule
\* "Custom" was added (add_rule puts it into the default rule set) and
\* switched off, and a rule set listing it was added.  From there on rules
\* are updated, the default is moved and texts are processed.
InitUse ==
    /\ now = 0
    /\ uuids = [rule |-> 1, set |-> 1]
    /\ NoStdio
    /\ \E f \in AddRuleInputs, l \in MemberLists \ {<<>>} :
          LET w0 == load_config(Missing, 0, "ok")
              w1 == tool_add_rule(w0, f, FirstAddedId, 0, "ok").w
              w2 == tool_update_rule(w1, FirstAddedId,
                                     [NoUpdate EXCEPT !.enabled = Some(FALSE)], 0, "ok").w
              w3 == tool_add_rule_set(w2, "Set", "", l, 1, 0, "ok").w
          IN /\ Compiles(f.condition)
             /\ config = w3.config
             /\ disk = w3.disk
    /\ ret = [op |-> "idle"]

NextUse ==
    \/ update_rule_field
    \/ set_default_rule_set
    \/ ProcessText
    \/ RedactText
    \/ Respond

SpecUse == InitUse /\ [][NextUse]_vars

\* The engine with rule sets switched off.  The server was started without
\* a document, a rule "Custom" and a rule set listing it were added.  From
\* there on rule sets are switched off, the default is moved and texts are
\* processed.
InitSets ==
    /\ now = 0
    /\ uuids = [rule |-> 1, set |-> 1]
    /\ NoStdio
    /\ \E f \in AddRuleInputs, l \in MemberLists \ {<<>>} :
          LET w0 == load_config(Missing, 0, "ok")
              w1 == tool_add_rule(w0, f, FirstAddedId, 0, "ok").w
              w2 == tool_add_rule_set(w1, "Set", "", l, 1, 0, "ok").w
          IN /\ Compiles(f.condition)
             /\ config = w2.config
             /\ disk = w2.disk
    /\ ret = [op |-> "idle"]

NextSets ==
    \/ update_rule_set_enabled
    \/ set_default_rule_set
    \/ ProcessText
    \/ Respond

SpecSets == InitSets /\ [][NextSets]_vars

----------------------------------------------------------------------------
(* rules_management_server.py: the RuleManager behind the management UI.   *)
(* It reads and writes the same rules_config.json as the engine.           *)

MaxManagerRules == 3    \* rules added through RuleManager.add_rule

NumManagerSeeds == 5    \* len(default_rules) in create_default_config
EmptyId == 0            \* the id "" (rule ids proper are 1, 2, ...)

\* the ids uuid4 hands to RuleManager.add_rule lie above every other id
ManagerFreshId(n) == GhostId + n + 1

\* RuleManager.save_config: the file after the call; an exception is logged
\* and swallowed (the method returns False)
RuleManager_save_config(cfg, file, io) ==
    IF io = "ok" THEN Document(cfg) ELSE Corrupt

\* RuleManager.create_default_config: the rule set "default" lists the five
\* seed rules "ssn", "cc", "email", "phone", "credentials" (ids 1..5) and
\* the configuration is saved
RuleManager_create_default_config(file, t, io) ==
    LET seed(i) == Rule(i, default_rules[i].name, "", default_rules[i].condition,
                        default_rules[i].action, default_rules[i].replacement,
                        NoParams, TRUE, default_rules[i].priority, t)
        set == RuleSet(DefaultSetId, "Default", "", [i \in 1..NumManagerSeeds |-> i], TRUE, t)
        cfg == [rules |-> [i \in 1..NumManagerSeeds |-> seed(i)],
                rule_sets |-> DictPut(<<>>, DefaultSetId, set),
                default_rule_set |-> DefaultSetId]
    IN [config |-> cfg, disk |-> RuleManager_save_config(cfg, file, io)]

\* RuleManager.load_config: a readable document is taken as it is, a
\* missing or unreadable one is replaced by the default configuration
RuleManager_load_config(file, t, io) ==
    IF file.kind = "json" THEN [config |-> LoadDocument(file), disk |-> file]
    ELSE RuleManager_create_default_config(file, t, io)

\* mutant: the rule is stored under the id it came with
RuleManager_add_rule_Overwriting(w, rule, fresh, t, io) ==
    LET cfg  == w.config
        r    == [rule EXCEPT !.created_at = t, !.updated_at = t]
        d    == cfg.default_rule_set
        sets == IF d \in DOMAIN cfg.rule_sets /\ r.id \notin Range(cfg.rule_sets[d].rules)
                THEN [cfg.rule_sets EXCEPT ![d].rules = Append(@, r.id), ![d].updated_at = t]
                ELSE cfg.rule_sets
        cfg2 == [cfg EXCEPT !.rules = DictPut(cfg.rules, r.id, r), !.rule_sets = sets]
    IN [w |-> World(cfg2, RuleManager_save_config(cfg2, w.disk, io)), ret |-> r.id]

\* mutant: the id is appended to the default rule set whether it is listed
\* or not
RuleManager_add_rule_AlwaysAppending(w, rule, fresh, t, io) ==
    LET cfg  == w.config
        r0   == IF rule.id = EmptyId \/ rule.id \in DOMAIN cfg.rules
                THEN [rule EXCEPT !.id = fresh] ELSE rule
        r    == [r0 EXCEPT !.created_at = t, !.updated_at = t]
        d    == cfg.default_rule_set
        sets == IF d \in DOMAIN cfg.rule_sets
                THEN [cfg.rule_sets EXCEPT ![d].rules = Append(@, r.id), ![d].updated_at = t]
                ELSE cfg.rule_sets
        cfg2 == [cfg EXCEPT !.rules = DictPut(cfg.rules, r.id, r), !.rule_sets = sets]
    IN [w |-> World(cfg2, RuleManager_save_config(cfg2, w.disk, io)), ret |-> r.id]

\* RuleManager.add_rule: an empty id or one config.rules holds is replaced
\* by a generated one (fresh), both timestamps are set, the rule is stored,
\* its id is appended to the default rule set unless that lists it already,
\* and the configuration is saved.  Returns the rule's id.
RuleManager_add_rule(w, rule, fresh, t, io) ==
    LET cfg  == w.config
        r0   == IF rule.id = EmptyId \/ rule.id \in DOMAIN cfg.rules
                THEN [rule EXCEPT !.id = fresh] ELSE rule
        r    == [r0 EXCEPT !.created_at = t, !.updated_at = t]
        d    == cfg.default_rule_set
        sets == IF d \in DOMAIN cfg.rule_sets /\ r.id \notin Range(cfg.rule_sets[d].rules)
                THEN [cfg.rule_sets EXCEPT ![d].rules = Append(@, r.id), ![d].updated_at = t]
                ELSE cfg.rule_sets
        cfg2 == [cfg EXCEPT !.rules = DictPut(cfg.rules, r.id, r), !.rule_sets = sets]
    IN [w |-> World(cfg2, RuleManager_save_config(cfg2, w.disk, io)), ret |-> r.id]

\* the document the engine leaves when, started without one, it was asked
\* to update_rule_set("default", rule_ids = the seed rules and GhostId):
\* the default rule set lists an id no rule has
EngineDocument ==
    LET cfg == load_config(Missing, 0, "ok").config
    IN Document([cfg EXCEPT !.rule_sets[DefaultSetId].rules = Append(@, GhostId)])

\* what the RuleManager may find at rules_config_path
ManagerDocuments == {Missing, Corrupt, EngineDocument}

\* the ids a caller passes in rule.id: none, a seed rule's, one no rule
\* has, and the ids earlier calls generated
ManagerIdInputs == {EmptyId, 1, GhostId} \cup {ManagerFreshId(n) : n \in 0..(uuids.rule - 1)}

\* `rule_manager = RuleManager()`
InitManager ==
    /\ now = 0
    /\ uuids = [rule |-> 0, set |-> 0]
    /\ NoStdio
    /\ \E file \in ManagerDocuments, io \in IOOutcomes :
          LET r == RuleManager_load_config(file, 0, io)
          IN /\ config = r.config
             /\ disk = r.disk
             /\ ret = [op |-> "init", found |-> file.kind,
                       io |-> IF file.kind = "json" THEN "none" ELSE io]

\* a call of RuleManager.add_rule; ret records the id the rule came with
\* and the id returned
manager_add_rule ==
    /\ Idle
    /\ uuids.rule < MaxManagerRules
    /\ \E id \in ManagerIdInputs, t \in now..MaxTime, io \in IOOutcomes :
          LET rule == Rule(id, "Custom", "", <<"s">>, "redact", <<"*">>, NoParams, TRUE, 50, t)
              r    == RuleManager_add_rule(W, rule, ManagerFreshId(uuids.rule), t, io)
          IN /\ config' = r.w.config
             /\ disk' = r.w.disk
             /\ now' = t
             /\ uuids' = [uuids EXCEPT !.rule = @ + 1]
             /\ UNCHANGED stdio_vars
             /\ ret' = [op |-> "RuleManager.add_rule", arg |-> Some(id), error |-> "",
                        id |-> Some(r.ret), io |-> io]

NextManager ==
    \/ manager_add_rule
    \/ Respond

SpecManager == InitManager /\ [][NextManager]_vars

----------------------------------------------------------------------------
(* simple_mcp_stdio.py: the JSON-RPC loop over stdin and stdout.  A line   *)
(* is known by what json.loads makes of it: a complete request object, its *)
(* first or second half (an object written over two lines), whitespace     *)
(* only, or text no JSON document starts with.  A request carries as id    *)
(* its position in the input.                                              *)

MaxLines == 3    \* lines on stdin

LineKinds == {"request", "head", "tail", "blank", "malformed"}

\* the stream whose i-th line is of kind kinds[i]
Lines(kinds) == [i \in 1..Len(kinds) |-> [kind |-> kinds[i], id |-> i]]

\* json.loads(buffer): the request object when the buffer holds, between
\* whitespace, exactly one JSON document; None where it raises
\* JSONDecodeError
json_loads(buf) ==
    LET text == SelectSeq(buf, LAMBDA l : l.kind # "blank")
    IN IF Len(text) = 1 /\ text[1].kind = "request" THEN Some([id |-> text[1].id])
       ELSE IF Len(text) = 2 /\ text[1].kind = "head" /\ text[2].kind = "tail"
            THEN Some([id |-> text[1].id])
       ELSE None

\* handle_jsonrpc_request: every branch answers with the request's id
handle_jsonrpc_request(request) == [jsonrpc |-> "2.0", id |-> request.id]

\* `python simple_mcp_stdio.py --stdio`: run_stdio_server has created the
\* queue and started the reader thread, the buffer is empty
InitStdio ==
    /\ config = RuleEngineConfig
    /\ disk = Missing
    /\ now = 0
    /\ uuids = [rule |-> 0, set |-> 0]
    /\ ret = [op |-> "idle"]
    /\ stdin \in {Lines(kinds) : kinds \in SeqsUpTo(LineKinds, MaxLines)}
    /\ reader_thread = TRUE
    /\ stdin_queue = <<>>
    /\ buffer = <<>>
    /\ stdout = <<>>

\* read_stdin_thread, one turn of its loop: the line read is put on the
\* queue; at the end of the input the thread ends
read_stdin_thread ==
    /\ reader_thread
    /\ IF stdin = <<>>
       THEN /\ reader_thread' = FALSE
            /\ UNCHANGED <<stdin, stdin_queue>>
       ELSE /\ stdin_queue' = Append(stdin_queue, Head(stdin))
            /\ stdin' = Tail(stdin)
            /\ UNCHANGED reader_thread
    /\ UNCHANGED <<buffer, stdout, config, disk, now, uuids, ret>>

\* run_stdio_server, one turn of its loop that gets a line: the line is
\* added to the buffer; if the buffer parses, the request is handled, the
\* response written and the buffer cleared, otherwise the buffer is kept.
\* (A turn that finds the queue empty after 0.1 s changes nothing.)
run_stdio_server ==
    /\ stdin_queue # <<>>
    /\ LET line    == Head(stdin_queue)
           request == json_loads(buffer \o <<line>>)
       IN /\ stdin_queue' = Tail(stdin_queue)
          /\ IF request # None
             THEN /\ stdout' = Append(stdout, handle_jsonrpc_request(request[1]))
                  /\ buffer' = <<>>
             ELSE /\ buffer' = buffer \o <<line>>
                  /\ UNCHANGED stdout
    /\ UNCHANGED <<stdin, reader_thread, config, disk, now, uuids, ret>>

NextStdio ==
    \/ read_stdin_thread
    \/ run_stdio_server

\* The reader is a thread of its own and the loop polls the queue every
\* 0.1 s: neither waits for ever while it can take a step.
SpecStdio ==
    /\ InitStdio
    /\ [][NextStdio]_vars
    /\ WF_vars(read_stdin_thread)
    /\ WF_vars(run_stdio_server)

----------------------------------------------------------------------------
(* Properties of process_text, checked under SpecPT *)

\* a process_text call has returned
Processed == ret.op = "process_text"

\* the rule evaluated at step k of the call, and the text it was given
StepRule(k) == config.rules[ret.out.steps[k].rule_id]
StepSeen(k) == ret.out.steps[k].seen

\* step k evaluated a block rule whose pattern matched the text it was given
BlockHit(k) ==
    /\ StepRule(k).action = "block"
    /\ Compiles(StepRule(k).condition)
    /\ Search(StepRule(k).condition, StepSeen(k))

\* the one result a block returns
BlockResult(r) ==
    [rule_id |-> r.id, rule_name |-> r.name, action |-> "block",
     reason |-> ParamGet(r.parameters.reason, "Blocked by rule"),
     severity |-> ParamGet(r.parameters.severity, "high")]

\* C1: when process_text reaches a block rule whose pattern matches the
\* current text, it returns status "blocked", an empty processed_text and
\* exactly one result, that block rule's: the results of the rules
\* evaluated before it are discarded and no rule is evaluated after it.
C1_BlockShortCircuit ==
    Processed =>
        \A k \in 1..Len(ret.out.steps) :
            BlockHit(k) =>
                /\ ret.out.status = "blocked"
                /\ ret.out.processed_text = <<>>
                /\ ret.out.results = <<BlockResult(StepRule(k))>>
                /\ k = Len(ret.out.steps)

\* a block hit after an earlier rule had recorded a match of its own
C1_Witness ==
    /\ Processed
    /\ Len(ret.out.steps) >= 2
    /\ BlockHit(Len(ret.out.steps))
    /\ StepRule(1).action \in {"redact", "flag"}
    /\ Compiles(StepRule(1).condition)
    /\ Search(StepRule(1).condition, StepSeen(1))
    /\ Len(ret.out.results) = 1

\* the rule a result entry belongs to
ResultRule(k) == config.rules[ret.out.results[k].rule_id]

\* step k applied a redact rule that did not raise
Redacted(k) ==
    /\ StepRule(k).action = "redact"
    /\ Compiles(StepRule(k).condition)
    /\ TemplateOk(StepRule(k).condition, StepRule(k).replacement)

\* C2: rules are evaluated by descending priority: a rule of higher priority
\* is evaluated before one of lower priority, all its results precede the
\* lower one's in results, and the text a rule is given is the text the
\* rule before it left, so a redaction by the higher-priority rule is already
\* substituted in the text the lower-priority rule is matched against.
C2_PriorityOrder ==
    Processed =>
        /\ \A i, j \in 1..Len(ret.out.steps) :
              i < j => StepRule(i).priority >= StepRule(j).priority
        /\ \A i, j \in 1..Len(ret.out.results) :
              i < j => ResultRule(i).priority >= ResultRule(j).priority
        /\ \A k \in 1..(Len(ret.out.steps) - 1) :
              Redacted(k) =>
                  StepSeen(k + 1) = Sub(StepRule(k).condition, StepRule(k).replacement,
                                        StepSeen(k))

\* the second rule in id order has the higher priority and redacts a match;
\* the first, of lower priority, matches a disjoint part of the same text
C2_Witness ==
    /\ Processed
    /\ Len(ret.out.steps) = 2
    /\ ret.out.steps[1].rule_id > ret.out.steps[2].rule_id
    /\ StepRule(1).priority > StepRule(2).priority
    /\ Redacted(1) /\ Search(StepRule(1).condition, StepSeen(1))
    /\ Redacted(2) /\ Search(StepRule(2).condition, StepSeen(2))
    /\ StepRule(1).condition # StepRule(2).condition
    /\ StepSeen(2) # StepSeen(1)
    /\ Len(ret.out.results) = 2
    /\ ret.out.results[1].rule_id = ret.out.steps[1].rule_id

----------------------------------------------------------------------------
(* Properties of the rule repository, checked under Spec *)

Called(op) == ret.op = op
Succeeded(op) == ret.op = op /\ ret.error = ""

\* a step in which the tool op is called
Calls(op) == ret.op = "idle" /\ ret'.op = op

StoreUnchanged == config' = config /\ disk' = disk

\* C3: every rule held in config.rules has a condition that compiles,
\* whatever add_rule and update_rule calls were made.
C3_NoInvalidPatternStored ==
    \A id \in DOMAIN config.rules : Compiles(config.rules[id].condition)

\* C4: add_rule with a condition that does not compile returns the
\* InvalidPattern error and leaves the rules, the rule sets, the default and
\* the persisted document as they were.
C4_AddRuleInvalidPattern ==
    [][(Calls("add_rule") /\ ~Compiles(ret'.arg[1]))
          => (ret'.error = "InvalidPattern" /\ StoreUnchanged)]_vars

\* add_rule has just refused a condition, with added rules in the store
C4_Witness ==
    /\ Called("add_rule")
    /\ ret.error = "InvalidPattern"
    /\ ~Compiles(ret.arg[1])
    /\ Cardinality(DOMAIN config.rules) > NumSeedRules

\* C5: update_rule with a new condition that does not compile returns the
\* InvalidPattern error and leaves every field of the stored rule and the
\* persisted document as they were.
C5_UpdateRuleInvalidPattern ==
    [][(Calls("update_rule") /\ ret'.error = "InvalidPattern") => StoreUnchanged]_vars

\* C6: after delete_rule(id) has succeeded, no rule set's membership list
\* contains id, whatever the lists held before (duplicates included).
C6_DeleteCascade ==
    Succeeded("delete_rule") =>
        \A s \in DOMAIN config.rule_sets :
            ret.arg[1] \notin Range(config.rule_sets[s].rules)

C8_DefaultExists == config.default_rule_set \in DOMAIN config.rule_sets

\* the default was moved to an added rule set and "default" itself deleted
C8_Witness ==
    /\ Succeeded("delete_rule_set")
    /\ ret.arg = Some(DefaultSetId)
    /\ config.default_rule_set # DefaultSetId
    /\ DefaultSetId \notin DOMAIN config.rule_sets

MutatingTools ==
    {"add_rule", "update_rule", "delete_rule", "add_rule_set", "update_rule_set",
     "delete_rule_set", "set_default_rule_set"}

\* C9: when a mutating tool has returned success and its write did not fail,
\* the persisted document is the in-memory configuration, whole.
C9_MutationPersisted ==
    (ret.op \in MutatingTools /\ ret.error = "" /\ ret.io = "ok")
        => disk = Document(config)

\* set_default_rule_set succeeded over a document that was missing a rule
\* set and named another default
C9_Witness ==
    /\ Succeeded("set_default_rule_set")
    /\ ret.io = "ok"
    /\ config.default_rule_set # DefaultSetId
    /\ disk.kind = "json"
    /\ disk.default_rule_set = config.default_rule_set

----------------------------------------------------------------------------
(* Start-up, checked under Spec *)

\* the process has just started and found no usable document
Bootstrapped == ret.op = "init" /\ ret.found \in {"missing", "corrupt"}

\* C11: a start that finds the document missing or corrupt installs the
\* rule set "default" with the nine seed rules, makes it the default and
\* persists the configuration, in both cases.
C11_BootstrapPersisted ==
    Bootstrapped =>
        /\ config.default_rule_set = DefaultSetId
        /\ DOMAIN config.rule_sets = {DefaultSetId}
        /\ Len(config.rule_sets[DefaultSetId].rules) = NumSeedRules
        /\ \A i \in 1..NumSeedRules :
              LET id == config.rule_sets[DefaultSetId].rules[i]
              IN id \in DOMAIN config.rules
                 /\ config.rules[id].name = default_rules[i].name
        /\ (ret.io # "write_fails" => disk = Document(config))

----------------------------------------------------------------------------
(* More properties of process_text, checked under SpecPT *)

\* the rule set ids a call named, as a set
NamedSets == IF ret.arg.rule_set_ids = None THEN {} ELSE Range(ret.arg.rule_set_ids[1])

\* the members of the default rule set that are enabled
EnabledDefaultRules ==
    {id \in Range(config.rule_sets[config.default_rule_set].rules) :
        id \in DOMAIN config.rules /\ config.rules[id].enabled}

\* C12: process_text of the empty text returns the empty text, no results
\* and status "success", and evaluates no rule, whatever the configuration
\* and the rule_set_ids argument.
C12_EmptyText ==
    (Processed /\ ret.arg.text = <<>>) =>
        /\ ret.out.processed_text = <<>>
        /\ ret.out.results = <<>>
        /\ ret.out.status = "success"
        /\ ret.out.steps = <<>>

\* the empty text was processed while an enabled block rule whose pattern
\* matches the empty string was in the rule set read
C12_Witness ==
    /\ Processed
    /\ ret.arg.text = <<>>
    /\ ret.arg.rule_set_ids = None
    /\ ret.out.status = "success"
    /\ \E id \in EnabledDefaultRules :
          /\ config.rules[id].action = "block"
          /\ Compiles(config.rules[id].condition)
          /\ Search(config.rules[id].condition, <<>>)

\* C13: when rule_set_ids is a non-empty list none of whose ids is an
\* existing rule set, process_text returns the text as given, no results and
\* status "success": no rule is evaluated, the default rule set is not read.
C13_UnknownRuleSets ==
    (Processed /\ NamedSets # {} /\ NamedSets \cap DOMAIN config.rule_sets = {}) =>
        /\ ret.out.processed_text = ret.arg.text
        /\ ret.out.results = <<>>
        /\ ret.out.status = "success"
        /\ ret.out.steps = <<>>

\* only an unknown rule set was named, for a text that an enabled rule of
\* the default rule set matches
C13_Witness ==
    /\ Processed
    /\ ret.arg.rule_set_ids = Some(<<NoSetId>>)
    /\ NoSetId \notin DOMAIN config.rule_sets
    /\ ret.arg.text # <<>>
    /\ ret.out.processed_text = ret.arg.text
    /\ \E id \in EnabledDefaultRules :
          /\ config.rules[id].action \in {"redact", "block"}
          /\ Compiles(config.rules[id].condition)
          /\ Search(config.rules[id].condition, ret.arg.text)

\* process_text of a non-empty text has returned with status "success": its
\* results are the entries the rules appended, in order (a blocked call
\* returns only the block's entry)
Completed == Processed /\ ret.arg.text # <<>> /\ ret.out.status = "success"

\* the entries the rule of step k appended to results
StepAdded(k) ==
    SubSeq(ret.out.results, ret.out.steps[k].at + 1,
           IF k < Len(ret.out.steps) THEN ret.out.steps[k + 1].at
           ELSE Len(ret.out.results))

\* the text the rule of step k left
StepLeft(k) ==
    IF k < Len(ret.out.steps) THEN StepSeen(k + 1) ELSE ret.out.processed_text

\* the enabled rules of the rule sets the call read
RulesRead ==
    IF NamedSets = {} THEN EnabledDefaultRules
    ELSE {id \in DOMAIN config.rules :
            /\ config.rules[id].enabled
            /\ \E sid \in NamedSets \cap DOMAIN config.rule_sets :
                  id \in Range(config.rule_sets[sid].rules)}

\* the loop went over every rule it was to apply
AllEvaluated == {ret.out.steps[k].rule_id : k \in 1..Len(ret.out.steps)} = RulesRead

SupportedActions == {"redact", "flag", "block", "transform"}

\* C14: a rule whose action is none of redact, flag, block, transform adds
\* the result {rule_id, rule_name, action "error", error "unsupported
\* action"}, leaves the text as it was, and the loop goes on.
C14_UnsupportedAction ==
    Completed =>
        /\ AllEvaluated
        /\ \A k \in 1..Len(ret.out.steps) :
              StepRule(k).action \notin SupportedActions =>
                  /\ StepAdded(k) = << [rule_id |-> StepRule(k).id,
                                        rule_name |-> StepRule(k).name,
                                        action |-> "error",
                                        error |-> "unsupported action"] >>
                  /\ StepLeft(k) = StepSeen(k)

\* applying the rule of step k raised: its condition does not compile, or
\* its replacement template refers to a group the pattern does not have
Raised(k) ==
    \/ /\ StepRule(k).action \in {"redact", "flag", "block"}
       /\ ~Compiles(StepRule(k).condition)
    \/ /\ StepRule(k).action = "transform"
       /\ StepRule(k).parameters.transform_type = "date"
       /\ ~Compiles(StepRule(k).condition)
    \/ /\ StepRule(k).action = "redact"
       /\ Compiles(StepRule(k).condition)
       /\ ~TemplateOk(StepRule(k).condition, StepRule(k).replacement)

\* C15: a rule whose application raises adds exactly one result, an "error"
\* entry naming it; the text is as it stood before that rule; every other
\* rule is still evaluated and the call returns normally.
C15_FailureIsolated ==
    Completed =>
        /\ AllEvaluated
        /\ \A k \in 1..Len(ret.out.steps) :
              Raised(k) =>
                  /\ Len(StepAdded(k)) = 1
                  /\ StepAdded(k)[1].action = "error"
                  /\ StepAdded(k)[1].rule_id = StepRule(k).id
                  /\ StepAdded(k)[1].rule_name = StepRule(k).name
                  /\ StepLeft(k) = StepSeen(k)

----------------------------------------------------------------------------
(* More properties of the rule repository, checked under Spec *)

RuleTools == {"update_rule", "delete_rule"}
RuleSetTools == {"update_rule_set", "delete_rule_set", "set_default_rule_set"}

\* a step in which a tool is called with an id that names nothing
CallsUnknown ==
    /\ ret.op = "idle"
    /\ \/ ret'.op \in RuleTools /\ ret'.arg[1] \notin DOMAIN config.rules
       \/ ret'.op \in RuleSetTools /\ ret'.arg[1] \notin DOMAIN config.rule_sets

\* C16: update_rule, delete_rule, update_rule_set, delete_rule_set and
\* set_default_rule_set called with an id that does not exist return a
\* failure and leave the rules, the rule sets, the default and the persisted
\* document as they were.
C16_NotFoundUnchanged == [][CallsUnknown => (ret'.error # "" /\ StoreUnchanged)]_vars

\* delete_rule was refused for an unknown id while the store held an added
\* rule and an added rule set
C16_Witness ==
    /\ Called("delete_rule")
    /\ ret.arg[1] \notin DOMAIN config.rules
    /\ ret.error # ""
    /\ Cardinality(DOMAIN config.rules) > NumSeedRules
    /\ Cardinality(DOMAIN config.rule_sets) >= 2
    /\ disk = Document(config)

\* C17: when the write of the document fails during a mutating call, the
\* caller is told: the dictionary returned is not the plain success one.
\* (The dictionary a tool returns holds an error, or the id and the object;
\* nothing else could carry a warning.)
C17_SaveFailureSurfaced ==
    (ret.op \in MutatingTools /\ ret.io = "write_fails") => ret.error # ""

\* a get_rules_by_set call has returned
Got == ret.op = "get_rules_by_set"

\* the rule set it was to read
AskedSet == IF ret.arg = None THEN config.default_rule_set ELSE ret.arg[1]

\* C18: get_rules_by_set returns no rule for an unknown rule set; for a
\* known one (the default when no id is given) it returns, in the order of
\* the membership list, the rule of every entry whose id is in the rules map,
\* and skips the others.  So it never returns a rule that was deleted.
C18_GetRulesBySet ==
    Got =>
        IF AskedSet \notin DOMAIN config.rule_sets THEN ret.out = <<>>
        ELSE LET list == config.rule_sets[AskedSet].rules
                 live == {i \in 1..Len(list) : list[i] \in DOMAIN config.rules}
                 nth(k) == CHOOSE i \in live : Cardinality({j \in live : j < i}) = k - 1
             IN /\ Len(ret.out) = Cardinality(live)
                /\ \A k \in 1..Len(ret.out) : ret.out[k] = config.rules[list[nth(k)]]

\* the default was read with no id given: its list holds an id with no rule
\* in front of the id of a stored rule, which alone is returned
C18_Witness ==
    /\ Got
    /\ ret.arg = None
    /\ AskedSet # DefaultSetId
    /\ LET list == config.rule_sets[AskedSet].rules
       IN /\ Len(list) = 2
          /\ list[1] \notin DOMAIN config.rules
          /\ list[2] \in DOMAIN config.rules
          /\ ret.out = <<config.rules[list[2]]>>

\* C19: a successful add_rule stores the rule under the id it returns and
\* appends that id to the membership list of the rule set that was the
\* default when it was called; no other membership list changes.
C19_AddRuleAppendsToDefault ==
    [][(Calls("add_rule") /\ ret'.error = "") =>
          LET id == ret'.id[1]
              d  == config.default_rule_set
          IN /\ id \in DOMAIN config'.rules
             /\ config'.rules[id].id = id
             /\ config'.rule_sets[d].rules = Append(config.rule_sets[d].rules, id)
             /\ \A s \in DOMAIN config.rule_sets \ {d} :
                   config'.rule_sets[s].rules = config.rule_sets[s].rules
             /\ DOMAIN config'.rule_sets = DOMAIN config.rule_sets]_vars

\* a rule was added after the default had been moved to an added rule set:
\* its id closes that set's list and "default" does not hold it
C19_Witness ==
    /\ Succeeded("add_rule")
    /\ config.default_rule_set # DefaultSetId
    /\ DefaultSetId \in DOMAIN config.rule_sets
    /\ LET list == config.rule_sets[config.default_rule_set].rules
       IN list # <<>> /\ list[Len(list)] = ret.id[1]
    /\ ret.id[1] \notin Range(config.rule_sets[DefaultSetId].rules)

----------------------------------------------------------------------------
(* The actions of process_text, checked under SpecPT *)

\* the redact entry a rule records for one match
RedactEntry(rule) ==
    [rule_id |-> rule.id, rule_name |-> rule.name, action |-> "redact",
     original |-> IF HasGroups(rule.condition) THEN Group1(rule.condition)
                  ELSE Literal(rule.condition),
     replacement |-> rule.replacement]

\* C20: a redact rule whose pattern compiles adds one redact result per
\* non-overlapping match in the text it is given, left to right (original:
\* the first group's text if the pattern has a group, else the match;
\* replacement: the rule's), adds nothing else, and leaves the text with
\* every one of those matches replaced.
C20_Redact ==
    Completed =>
        \A k \in 1..Len(ret.out.steps) :
            (StepRule(k).action = "redact" /\ Compiles(StepRule(k).condition)) =>
                LET n == Len(MatchStarts(StepRule(k).condition, StepSeen(k), 1))
                IN /\ StepAdded(k) = [i \in 1..n |-> RedactEntry(StepRule(k))]
                   /\ StepLeft(k) = Sub(StepRule(k).condition, StepRule(k).replacement,
                                        StepSeen(k))

----------------------------------------------------------------------------
(* The date transform and the flag, checked under SpecPT *)

\* step k evaluated a date transform whose pattern compiles
DateStep(k) ==
    /\ StepRule(k).action = "transform"
    /\ StepRule(k).parameters.transform_type = "date"
    /\ Compiles(StepRule(k).condition)

\* the result recorded for one occurrence that parses as MM/DD/YYYY
TransformEntry(rule) ==
    [rule_id |-> rule.id, rule_name |-> rule.name, action |-> "transform",
     original |-> Literal(rule.condition),
     transformed |-> Strftime(ParamGet(rule.parameters.format, "%Y-%m-%d")),
     transform_type |-> "date"]

\* C21: a date transform records one transform result per match that
\* parses as MM/DD/YYYY and rewrites that occurrence to the reformatted
\* date; a match that does not parse stays as it is and records nothing.
\* So the occurrences rewritten are those with a result, for every pattern,
\* with capturing groups or without.
C21_DateTransform ==
    Completed =>
        \A k \in 1..Len(ret.out.steps) :
            DateStep(k) =>
                LET rule == StepRule(k)
                    n == Len(MatchStarts(rule.condition, StepSeen(k), 1))
                IN IF Strptime(Literal(rule.condition))
                   THEN /\ StepAdded(k) = [i \in 1..n |-> TransformEntry(rule)]
                        /\ StepLeft(k) = SubFrom(rule.condition,
                                                 TransformEntry(rule).transformed,
                                                 StepSeen(k), 1)
                   ELSE /\ StepAdded(k) = <<>>
                        /\ StepLeft(k) = StepSeen(k)

\* the result a flag rule records for one match; m is the text reported
FlagEntry(rule, m) ==
    [rule_id |-> rule.id, rule_name |-> rule.name, action |-> "flag", text |-> m,
     flag_reason |-> ParamGet(rule.parameters.flag_reason, "Flagged by rule"),
     severity |-> ParamGet(rule.parameters.severity, "info")]

\* step k evaluated a flag rule whose pattern compiles
FlagStep(k) == StepRule(k).action = "flag" /\ Compiles(StepRule(k).condition)

\* the matches of the rule of step k in the text it was given
StepMatches(k) == Len(MatchStarts(StepRule(k).condition, StepSeen(k), 1))

\* C22 as stated: a flag rule appends one flag result per match, its text
\* the match, flag_reason and severity from the rule's parameters, and
\* leaves the text unchanged.
C22_FlagWholeMatch ==
    Completed =>
        \A k \in 1..Len(ret.out.steps) :
            FlagStep(k) =>
                /\ StepAdded(k) = [i \in 1..StepMatches(k) |->
                                     FlagEntry(StepRule(k), Literal(StepRule(k).condition))]
                /\ StepLeft(k) = StepSeen(k)

\* C22, amended: a flag rule appends one flag result per match, its text
\* the first group's text if the pattern has a capturing group and the
\* match otherwise, flag_reason and severity from the rule's parameters
\* (defaults "Flagged by rule" and "info"), and leaves the text unchanged:
\* the next rule is given the text the flag rule was given.
C22_Flag ==
    Completed =>
        \A k \in 1..Len(ret.out.steps) :
            FlagStep(k) =>
                /\ StepAdded(k) =
                     [i \in 1..StepMatches(k) |->
                        FlagEntry(StepRule(k),
                                  IF HasGroups(StepRule(k).condition)
                                  THEN Group1(StepRule(k).condition)
                                  ELSE Literal(StepRule(k).condition))]
                /\ StepLeft(k) = StepSeen(k)

\* a flag rule flagged two matches and a rule after it was given its text
C22_Witness ==
    /\ Completed
    /\ \E k \in 1..(Len(ret.out.steps) - 1) :
          /\ FlagStep(k)
          /\ StepMatches(k) = 2
          /\ Len(StepAdded(k)) = 2
          /\ StepSeen(k + 1) = StepSeen(k)

----------------------------------------------------------------------------
(* The engine in use, checked under SpecUse *)

\* the ids of the rules the call evaluated
StepIds == {ret.out.steps[k].rule_id : k \in 1..Len(ret.out.steps)}

\* the enabled members of rule set sid
EnabledRulesOf(sid) ==
    {id \in Range(config.rule_sets[sid].rules) :
        id \in DOMAIN config.rules /\ config.rules[id].enabled}

\* C23: process_text called without rule set ids applies the rules of the
\* rule set default_rule_set names at the time of the call: only its
\* enabled members are evaluated, and all of them unless a block ends the
\* call.  After set_default_rule_set(B), these are B's rules and not those
\* of the former default.
C23_DefaultFollowed ==
    (Processed /\ ret.arg.text # <<>> /\ ret.arg.rule_set_ids = None) =>
        /\ StepIds \subseteq EnabledRulesOf(config.default_rule_set)
        /\ ret.out.status = "success" =>
              StepIds = EnabledRulesOf(config.default_rule_set)

\* the default was moved away from "default"; a call without ids evaluated
\* the new default's rule and returned, though an enabled block rule of the
\* former default matches the text
C23_Witness ==
    /\ Completed
    /\ ret.arg.rule_set_ids = None
    /\ config.default_rule_set # DefaultSetId
    /\ StepIds # {}
    /\ \E id \in EnabledRulesOf(DefaultSetId) \ EnabledRulesOf(config.default_rule_set) :
          /\ config.rules[id].action = "block"
          /\ Search(config.rules[id].condition, ret.arg.text)

\* the enabled redact rules whose pattern matches text
Redacting(text) ==
    {id \in DOMAIN config.rules :
        /\ config.rules[id].enabled
        /\ config.rules[id].action = "redact"
        /\ Compiles(config.rules[id].condition)
        /\ TemplateOk(config.rules[id].condition, config.rules[id].replacement)
        /\ Search(config.rules[id].condition, text)}

\* C24: redact_text applies the redaction rules: where an enabled redact
\* rule matches the text, the redacted_text returned holds no match of it
\* any more and matches holds that rule's {original, replacement,
\* rule_name}.
C24_RedactText ==
    ret.op = "redact_text" =>
        \A id \in Redacting(ret.arg.text) :
            /\ ~Search(config.rules[id].condition, ret.out.redacted_text)
            /\ \E k \in 1..Len(ret.out.matches) :
                  /\ ret.out.matches[k].rule_name = config.rules[id].name
                  /\ ret.out.matches[k].replacement = config.rules[id].replacement

\* the rule set ids the call read, in order: those given, else the default
SetsRead ==
    IF ret.arg.rule_set_ids = None \/ ret.arg.rule_set_ids = Some(<<>>)
    THEN <<config.default_rule_set>>
    ELSE ret.arg.rule_set_ids[1]

\* the membership lists of the rule sets sids, one after the other
RECURSIVE Memberships(_)
Memberships(sids) ==
    IF sids = <<>> THEN <<>>
    ELSE (IF Head(sids) \in DOMAIN config.rule_sets
          THEN config.rule_sets[Head(sids)].rules ELSE <<>>)
         \o Memberships(Tail(sids))

\* the resolved candidate list: the ids of Memberships that name a rule
Candidates == SelectSeq(Memberships(SetsRead), LAMBDA id : id \in DOMAIN config.rules)

\* the ids of the rules evaluated, in the order they were evaluated
StepSeq == [k \in 1..Len(ret.out.steps) |-> ret.out.steps[k].rule_id]

\* the priorities of the stored rules
Priorities == {config.rules[id].priority : id \in DOMAIN config.rules}

\* the ids of l that name an enabled rule of priority p
OfPriority(l, p) ==
    SelectSeq(l, LAMBDA id : config.rules[id].enabled /\ config.rules[id].priority = p)

\* C26: the enabled rules of one priority are evaluated in the order of the
\* resolved candidate list (membership order within a rule set, the
\* caller's order across rule sets): for each priority the rules evaluated
\* are a prefix of the candidates of that priority, and all of them when
\* no block ends the call.
C26_StableTieBreak ==
    (Processed /\ ret.arg.text # <<>>) =>
        \A p \in Priorities :
            LET done == OfPriority(StepSeq, p)
                cand == OfPriority(Candidates, p)
            IN /\ Len(done) <= Len(cand)
               /\ done = SubSeq(cand, 1, Len(done))
               /\ ret.out.status = "success" => done = cand

\* two rule sets were named, the added one first; a rule of the added set
\* and a rule of "default" have the same priority, and the rule of the
\* added set, though it was stored last, was evaluated first
C26_Witness ==
    /\ Completed
    /\ Len(SetsRead) = 2
    /\ SetsRead[2] = DefaultSetId
    /\ \E i, j \in 1..Len(StepSeq) :
          /\ i < j
          /\ StepSeq[i] > StepSeq[j]
          /\ StepRule(i).priority = StepRule(j).priority

\* the ids of the rules that have an entry in results
ResultIds == {ret.out.results[k].rule_id : k \in 1..Len(ret.out.results)}

\* C27: a rule with enabled = FALSE is never applied by process_text,
\* whatever its priority, action and rule sets: it is not evaluated and has
\* no entry in results.  A rule with enabled = TRUE that is a candidate is
\* evaluated unless a block ends the call, also when update_rule has just
\* switched it on again.
C27_DisabledSkipped ==
    (Processed /\ ret.arg.text # <<>>) =>
        \A id \in DOMAIN config.rules :
            /\ ~config.rules[id].enabled => id \notin StepIds \cup ResultIds
            /\ (/\ config.rules[id].enabled
                /\ id \in Range(Candidates)
                /\ ret.out.status = "success") => id \in StepIds

\* the added rule, switched off before the first call, has been switched
\* on again by update_rule and the call applied it: it has entries in results
C27_Witness ==
    /\ Completed
    /\ config.rules[FirstAddedId].enabled
    /\ FirstAddedId \in StepIds \cap ResultIds

\* the added rule is switched off, is a candidate and matches the text, and
\* the call did not apply it
C27_WitnessOff ==
    /\ Completed
    /\ ~config.rules[FirstAddedId].enabled
    /\ FirstAddedId \in Range(Candidates)
    /\ Search(config.rules[FirstAddedId].condition, ret.arg.text)
    /\ FirstAddedId \notin StepIds

----------------------------------------------------------------------------
(* More properties of process_text, checked under SpecPT and SpecUse *)

\* step k evaluated a block rule whose pattern compiles
BlockStep(k) == StepRule(k).action = "block" /\ Compiles(StepRule(k).condition)

\* C28: a block rule decides on the text the fold has reached, the text
\* the rules before it left, not on the text process_text was called with:
\* it ends the call with status "blocked" if and only if its pattern matches
\* the text it is given.  A call that was not blocked returns the rewritten
\* text.
C28_BlockOnCurrentText ==
    (Processed /\ ret.arg.text # <<>>) =>
        /\ \A k \in 1..Len(ret.out.steps) :
              BlockStep(k) =>
                 (Search(StepRule(k).condition, StepSeen(k))
                    <=> (ret.out.status = "blocked" /\ k = Len(ret.out.steps)))
        /\ ret.out.status = "blocked" => BlockStep(Len(ret.out.steps))
        /\ ret.out.status = "success" =>
              \A k \in 1..Len(ret.out.steps) : BlockStep(k) => StepLeft(k) = StepSeen(k)

\* the text the call was given matches a block rule's pattern; a rule of
\* higher priority rewrote it, the block rule was given a text without a
\* match, and the call returned "success" with the rewritten text
C28_Witness ==
    /\ Completed
    /\ ret.out.processed_text # ret.arg.text
    /\ \E k \in 2..Len(ret.out.steps) :
          /\ BlockStep(k)
          /\ StepRule(k - 1).priority > StepRule(k).priority
          /\ Search(StepRule(k).condition, ret.arg.text)
          /\ ~Search(StepRule(k).condition, StepSeen(k))

\* how often id occurs in the list l
Count(l, id) == Len(SelectSeq(l, LAMBDA x : x = id))

\* C29: with rule_set_ids given, the candidate list is the concatenation
\* of the named rule sets' membership lists in the caller's order, nothing
\* removed: a call that no block ends evaluates an enabled rule as often
\* as the named rule sets list it.
C29_NoDeduplication ==
    (Completed /\ ret.arg.rule_set_ids # None /\ ret.arg.rule_set_ids # Some(<<>>)) =>
        \A id \in DOMAIN config.rules :
            Count(StepSeq, id) =
                IF config.rules[id].enabled
                THEN Count(Memberships(ret.arg.rule_set_ids[1]), id)
                ELSE 0

\* two rule sets were named that both list the added rule; the rule was
\* evaluated once per listing, more than once, and recorded results in two
\* of its evaluations
C29_Witness ==
    /\ Completed
    /\ ret.arg.rule_set_ids # None
    /\ Len(ret.arg.rule_set_ids[1]) = 2
    /\ \A k \in 1..2 :
          /\ ret.arg.rule_set_ids[1][k] \in DOMAIN config.rule_sets
          /\ FirstAddedId \in Range(config.rule_sets[ret.arg.rule_set_ids[1][k]].rules)
    /\ Count(StepSeq, FirstAddedId) >= 2
    /\ \E i, j \in 1..Len(StepSeq) :
          /\ i < j
          /\ StepSeq[i] = FirstAddedId /\ StepSeq[j] = FirstAddedId
          /\ StepAdded(i) # <<>> /\ StepAdded(j) # <<>>

\* C30: process_text works with the rules as they are stored when it is
\* called.  After update_rule has changed a rule's condition, the rule
\* matches with the new condition and not with the old one; after it has
\* changed the action, the replacement, the priority or the enabled flag,
\* the call uses the new value: rules run by descending stored priority,
\* only enabled ones, and a redact or flag rule records and rewrites what
\* its stored condition, action and replacement give on the text it sees.
C30_NoStaleMatcher ==
    (Processed /\ ret.arg.text # <<>>) =>
        /\ \A k \in 1..Len(ret.out.steps) : StepRule(k).enabled
        /\ \A k \in 1..(Len(ret.out.steps) - 1) :
              StepRule(k).priority >= StepRule(k + 1).priority
        /\ ret.out.status = "success" =>
              \A k \in 1..Len(ret.out.steps) :
                 LET rule == StepRule(k)
                 IN /\ (/\ rule.action = "redact"
                        /\ Compiles(rule.condition)
                        /\ TemplateOk(rule.condition, rule.replacement)) =>
                           /\ StepAdded(k) = [i \in 1..StepMatches(k) |-> RedactEntry(rule)]
                           /\ StepLeft(k) = Sub(rule.condition, rule.replacement,
                                                StepSeen(k))
                    /\ FlagStep(k) =>
                           /\ StepAdded(k) =
                                [i \in 1..StepMatches(k) |->
                                   FlagEntry(rule, IF HasGroups(rule.condition)
                                                   THEN Group1(rule.condition)
                                                   ELSE Literal(rule.condition))]
                           /\ StepLeft(k) = StepSeen(k)

\* the added rule, stored with the condition (f), has been given the
\* condition s by update_rule: the call redacted with it what s matches
\* and left in the text what the old condition matches
C30_Witness ==
    /\ Completed
    /\ config.rules[FirstAddedId].condition = <<"s">>
    /\ config.rules[FirstAddedId].action = "redact"
    /\ \E k \in 1..Len(StepSeq) :
          /\ StepSeq[k] = FirstAddedId
          /\ StepAdded(k) # <<>>
          /\ StepLeft(k) # StepSeen(k)
          /\ Search(<<"(", "f", ")">>, StepLeft(k))

----------------------------------------------------------------------------
(* Identity and frame properties of the tools, checked under Spec *)

\* every entry of rules and of rule_sets is stored under its own id
KeysAgree ==
    /\ \A k \in DOMAIN config.rules : config.rules[k].id = k
    /\ \A k \in DOMAIN config.rule_sets : config.rule_sets[k].id = k

\* the step adds no key to rules or rule_sets and removes none
KeysKept ==
    /\ DOMAIN config'.rules = DOMAIN config.rules
    /\ DOMAIN config'.rule_sets = DOMAIN config.rule_sets

\* C31: from the bootstrap on, through every add, update, delete and
\* restart, every entry of rules and of rule_sets is stored under its own
\* id; update_rule and update_rule_set add no key and remove none.
C31_IdsImmutable ==
    /\ KeysAgree
    /\ [][/\ KeysAgree'
          /\ (Calls("update_rule") \/ Calls("update_rule_set")) => KeysKept]_vars

\* update_rule_set has succeeded on an added rule set while an added rule
\* was stored: the set is still under its key, beside "default"
C31_Witness ==
    /\ Succeeded("update_rule_set")
    /\ ret.arg # Some(DefaultSetId)
    /\ ret.arg[1] \in DOMAIN config.rule_sets
    /\ config.rule_sets[ret.arg[1]].id = ret.arg[1]
    /\ config.rule_sets[ret.arg[1]].updated_at > config.rule_sets[ret.arg[1]].created_at
    /\ FirstAddedId \in DOMAIN config.rules

\* C33: the protection of the default follows the designation.  A
\* delete_rule_set of an existing rule set is refused exactly when that
\* set is the one default_rule_set names at the time of the call, and
\* removes the set otherwise: once set_default_rule_set(B) has succeeded,
\* the former default can be deleted and B cannot.
C33_ProtectionFollowsDefault ==
    [][(Calls("delete_rule_set") /\ ret'.arg[1] \in DOMAIN config.rule_sets) =>
          IF ret'.arg[1] = config.default_rule_set
          THEN ret'.error # "" /\ StoreUnchanged
          ELSE /\ ret'.error = ""
               /\ DOMAIN config'.rule_sets = DOMAIN config.rule_sets \ {ret'.arg[1]}
               /\ config'.default_rule_set = config.default_rule_set]_vars

\* the default was moved to an added rule set B and the former default
\* "default" has been deleted; the deletion of B is refused
C33_Witness ==
    /\ Called("delete_rule_set")
    /\ ret.error # ""
    /\ ret.arg = Some(config.default_rule_set)
    /\ config.default_rule_set # DefaultSetId
    /\ config.default_rule_set \in DOMAIN config.rule_sets
    /\ DefaultSetId \notin DOMAIN config.rule_sets

\* the rules no rule set lists
Unlisted ==
    {id \in DOMAIN config.rules :
        \A sid \in DOMAIN config.rule_sets : id \notin Range(config.rule_sets[sid].rules)}

\* C36: a successful delete_rule_set(s) removes the rule set s and nothing
\* else: the rules map, every other rule set and the default designation
\* are as before, so a rule that only s listed is still stored, and
\* get_rule finds it, though no rule set lists it.
C36_DeleteRuleSetFrame ==
    [][(Calls("delete_rule_set") /\ ret'.error = "") =>
          /\ config'.rules = config.rules
          /\ config'.default_rule_set = config.default_rule_set
          /\ DOMAIN config'.rule_sets = DOMAIN config.rule_sets \ {ret'.arg[1]}
          /\ \A sid \in DOMAIN config'.rule_sets :
                config'.rule_sets[sid] = config.rule_sets[sid]
          /\ \A id \in DOMAIN config.rules :
                get_rule_by_id(config', id) = Some(config.rules[id])]_vars

\* a rule set has been deleted and a rule is stored that no rule set lists
C36_Witness ==
    /\ Succeeded("delete_rule_set")
    /\ ret.arg[1] \notin DOMAIN config.rule_sets
    /\ Unlisted # {}
    /\ \A id \in Unlisted : get_rule_by_id(config, id) # None

----------------------------------------------------------------------------
(* More properties of the engine in use, checked under SpecUse *)

C34_EmptyListIsDefault ==
    (Processed /\ ret.arg.rule_set_ids = Some(<<>>)) =>
        /\ ret.out = process_text(config, ret.arg.text, None)
        /\ StepIds \subseteq EnabledRulesOf(config.default_rule_set)
        /\ (ret.arg.text # <<>> /\ ret.out.status = "success") =>
              StepIds = EnabledRulesOf(config.default_rule_set)

\* a call with the empty list, the default moved to an added rule set:
\* that set's rule was applied and recorded results
C34_Witness ==
    /\ Completed
    /\ ret.arg.rule_set_ids = Some(<<>>)
    /\ config.default_rule_set # DefaultSetId
    /\ StepIds # {}
    /\ ret.out.results # <<>>

----------------------------------------------------------------------------
(* Rule sets switched off, checked under SpecSets *)

\* the configuration with every rule set switched on
AllSetsEnabled ==
    [config EXCEPT !.rule_sets = [sid \in DOMAIN @ |-> [@[sid] EXCEPT !.enabled = TRUE]]]

\* the rule sets the call read that exist and are switched off
SetsReadOff ==
    {SetsRead[k] : k \in 1..Len(SetsRead)} \cap
        {sid \in DOMAIN config.rule_sets : ~config.rule_sets[sid].enabled}

\* C35: the enabled flag of a rule set has no effect on process_text.  A
\* call returns what it would return were every rule set switched on, the
\* default one and those named in rule_set_ids alike; the rules evaluated
\* are the enabled rules of the rule sets read.
C35_RuleSetEnabledIgnored ==
    (Processed /\ ret.arg.text # <<>>) =>
        /\ ret.out = process_text(AllSetsEnabled, ret.arg.text, ret.arg.rule_set_ids)
        /\ StepIds \subseteq RulesRead
        /\ ret.out.status = "success" => AllEvaluated

\* a call without rule set ids while the default rule set is switched off:
\* its rules were applied and recorded results
C35_Witness ==
    /\ Completed
    /\ ret.arg.rule_set_ids = None
    /\ ~config.rule_sets[config.default_rule_set].enabled
    /\ StepIds # {}
    /\ ret.out.results # <<>>

\* a call naming a rule set that is switched off and is not the default:
\* its rule was applied and recorded results
C35_WitnessNamed ==
    /\ Completed
    /\ ret.arg.rule_set_ids # None
    /\ Len(SetsRead) = 1
    /\ SetsRead[1] # config.default_rule_set
    /\ SetsReadOff # {}
    /\ ret.out.results # <<>>

----------------------------------------------------------------------------
(* RuleManager.add_rule, checked under SpecManager *)

\* the id RuleManager.add_rule returned and the id the rule came with
ManagerAdded == ret'.id[1]
ManagerGiven == ret'.arg[1]

\* C37: RuleManager.add_rule never overwrites a rule and never duplicates a
\* membership.  Every call stores the rule under an id no rule had (the
\* id it came with when that is non-empty and unused, a generated one
\* otherwise), so the rules grow by exactly one and every rule stored
\* before is unchanged; the default rule set's list gains the id at its end
\* unless it lists it already, and no other rule set changes.
C37_ManagerAddRule ==
    [][Calls("RuleManager.add_rule") =>
          LET d == config.default_rule_set
          IN /\ ManagerAdded # EmptyId
             /\ ManagerAdded \notin DOMAIN config.rules
             /\ (ManagerGiven # EmptyId /\ ManagerGiven \notin DOMAIN config.rules
                    => ManagerAdded = ManagerGiven)
             /\ DOMAIN config'.rules = DOMAIN config.rules \cup {ManagerAdded}
             /\ Cardinality(DOMAIN config'.rules) = Cardinality(DOMAIN config.rules) + 1
             /\ config'.rules[ManagerAdded].id = ManagerAdded
             /\ \A id \in DOMAIN config.rules : config'.rules[id] = config.rules[id]
             /\ DOMAIN config'.rule_sets = DOMAIN config.rule_sets
             /\ \A s \in DOMAIN config.rule_sets :
                   config'.rule_sets[s].rules =
                      IF s = d /\ ManagerAdded \notin Range(config.rule_sets[s].rules)
                      THEN Append(config.rule_sets[s].rules, ManagerAdded)
                      ELSE config.rule_sets[s].rules
             /\ Count(config'.rule_sets[d].rules, ManagerAdded) = 1]_vars

\* a rule came with the id of a stored rule and was stored under a
\* generated id, next to the rule that has the id
C37_Witness ==
    /\ Called("RuleManager.add_rule")
    /\ ret.arg[1] \in DOMAIN config.rules
    /\ ret.id[1] # ret.arg[1]
    /\ ret.id[1] \in DOMAIN config.rules
    /\ config.rules[ret.arg[1]].name # config.rules[ret.id[1]].name

\* the first rule added came with the id the engine's document lists in
\* the default rule set without a rule: the list holds it once
C37_WitnessListed ==
    /\ Called("RuleManager.add_rule")
    /\ uuids.rule = 1
    /\ disk.kind = "json"
    /\ NumSeedRules \in DOMAIN config.rules
    /\ ret.arg = Some(GhostId)
    /\ ret.id = Some(GhostId)
    /\ Count(config.rule_sets[config.default_rule_set].rules, GhostId) = 1

----------------------------------------------------------------------------
(* The stdio loop, checked under SpecStdio *)

\* the request line with id n has been read from stdin
RequestRead(n) ==
    \E i \in 1..Len(stdin_queue) : stdin_queue[i] = [kind |-> "request", id |-> n]

\* the response to request n is on stdout
Responded(n) == \E i \in 1..Len(stdout) : stdout[i].id = n

\* the responses on stdout are in the order of the requests, one each
ResponsesInOrder ==
    \A i, j \in 1..Len(stdout) : i < j => stdout[i].id < stdout[j].id

\* C38: every well-formed request line read from stdin eventually gets
\* exactly one response line on stdout, in request order, also when an
\* earlier line was malformed JSON.
C38_EveryRequestAnswered ==
    /\ []ResponsesInOrder
    /\ \A n \in 1..MaxLines : RequestRead(n) ~> Responded(n)

\* the whole input has been read and got, a malformed line was followed
\* by a request, and the request sits in the buffer unanswered
C38_Starved ==
    /\ ~reader_thread
    /\ stdin_queue = <<>>
    /\ Len(buffer) = 2
    /\ buffer[1].kind = "malformed"
    /\ buffer[2].kind = "request"
    /\ ~Responded(buffer[2].id)

\* what does hold: a request line is answered in the turn that gets it
\* exactly when the buffer then holds nothing but whitespace
C38_AnsweredOnEmptyBuffer ==
    [][/\ stdin_queue # <<>>
       /\ stdin_queue' = Tail(stdin_queue)
       /\ Head(stdin_queue).kind = "request"
       => LET n == Head(stdin_queue).id
          IN (\E i \in 1..Len(stdout') : stdout'[i].id = n) <=>
                SelectSeq(buffer, LAMBDA l : l.kind # "blank") = <<>>]_vars

====
